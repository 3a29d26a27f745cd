SPECIFICATION Spec
CONSTANTS
  Systems = {"linux", "darwin", "windows", "python"}
  Ifaces = {i1, i2}
  Browsers = {b1, b2}
  MaxDeaths = 1
  MaxFaults = 1
INVARIANTS
  NetworkComesBack
PROPERTIES
  
  ReleaseFrees
