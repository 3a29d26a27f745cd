------------------------------ MODULE Installer ------------------------------
(***************************************************************************)
(* The machine's side of an installation, on top of Enrollment: what the   *)
(* installer script served by src/src/app/api/downloads/[token]/route.ts   *)
(* does with the answer of agent/authenticate, the download of the agent's *)
(* binary (src/src/app/api/agent/binary/route.ts), and the binary's own    *)
(* --install, --uninstall and service start (src/overra-agent/main.go and  *)
(* config.go).                                                             *)
(*                                                                         *)
(* A call of Enrollment is one run of the script on its host; scripts on   *)
(* one host may overlap.  A JWT is named after the call that was answered  *)
(* with it.  The bash script stops at the first failure; the PowerShell    *)
(* script stops only when it is not authenticated.                         *)
(***************************************************************************)
EXTENDS Enrollment

CONSTANTS Windows   \* the hosts that run the PowerShell script

ASSUME WindowsAssumption == Windows \subseteq Hosts

VARIABLES
  at,          \* per call: the script's next step
  config,      \* per host: config.json, or None
  binary,      \* hosts with a whole agent binary
  registered,  \* hosts with the agent as a system service
  running,     \* per host: the JWT the agent process has read, or None
  \* History variable, read by no action.
  meddled      \* scripts under way on a host when something else was done there

machineVars == <<at, config, binary, registered, running, meddled>>
allVars == <<vars, machineVars>>

File == [jwt : Calls, private : BOOLEAN]

ASSUME FileAssumption == None \notin File

InstallerInit ==
  /\ Init
  /\ at = [c \in Calls |-> "begin"]
  /\ config = [h \in Hosts |-> None]
  /\ binary = {} /\ registered = {}
  /\ running = [h \in Hosts |-> None]
  /\ meddled = {}

OnWindows(c) == host[c] \in Windows

To(c, step) == at' = [at EXCEPT ![c] = step]

Midway == {"restrict", "download", "install", "register", "start", "say"}

(* What script c, or a user with c = None, does on host h, others there notice. *)
Meddle(c, h) == meddled' = meddled \cup {b \in Calls \ {c} : host[b] = h /\ at[b] \in Midway}

(* verifyAgentToken, for the JWT that call c was answered with. *)
TokenAccepted(c) == Accepted(c)

-----------------------------------------------------------------------------
(* Writing over a file leaves its mode alone; a new one is readable by all.    *)
ModeKept_NewFile(h) == FALSE
ModeKept(h) == config[h] # None /\ config[h].private

WriteConfig(c) ==
  /\ pc[c] = "answered" /\ at[c] = "begin"
  /\ To(c, "restrict")
  /\ config' = [config EXCEPT ![host[c]] = [jwt |-> c, private |-> ModeKept(host[c])]]
  /\ Meddle(c, host[c])
  /\ UNCHANGED <<vars, binary, registered, running>>

(* chmod 600, or Set-Acl. *)
Restrict(c) ==
  /\ at[c] = "restrict"
  /\ To(c, "download")
  /\ config' = [config EXCEPT ![host[c]].private = TRUE]
  /\ Meddle(c, host[c])
  /\ UNCHANGED <<vars, binary, registered, running>>

(* The portal serves the binary to an accepted JWT, if it has been built. *)
BinaryServed(c) == TokenAccepted(c)

(* A transfer that breaks off after the status line passes for a whole one.    *)
Fetch(c) ==
  /\ at[c] = "download" /\ BinaryServed(c)
  /\ To(c, "install")
  /\ binary' \in {binary \cup {host[c]}, binary \ {host[c]}}
  /\ Meddle(c, host[c])
  /\ UNCHANGED <<vars, config, registered, running>>

AfterFailure_Careless(c, step) == step
AfterFailure(c, step) == IF OnWindows(c) THEN step ELSE "died"

(* Any other status: the bash script removes the binary, even that of an agent *)
(* that was installed before; with no answer at all it stays.                  *)
FetchFails(c) ==
  /\ at[c] = "download"
  /\ To(c, AfterFailure(c, "install"))
  /\ \/ UNCHANGED binary
     \/ ~OnWindows(c) /\ binary' = binary \ {host[c]}
  /\ Meddle(c, host[c])
  /\ UNCHANGED <<vars, config, registered, running>>

-----------------------------------------------------------------------------
PermsVerified(h) == h \in Windows \/ config[h].private
ConfigLoads(h) == config[h] # None /\ PermsVerified(h)

(* --install: the configuration is loaded first. *)
Check(c) ==
  LET starts == host[c] \in binary /\ ConfigLoads(host[c]) IN
  /\ at[c] = "install"
  /\ To(c, IF starts THEN "register" ELSE AfterFailure(c, "say"))
  /\ UNCHANGED <<vars, config, binary, registered, running, meddled>>

(* The service manager refuses a service that it has already, and may fail.    *)
Register(c) ==
  /\ at[c] = "register"
  /\ \/ /\ host[c] \notin registered
        /\ registered' = registered \cup {host[c]}
        /\ To(c, "start")
        /\ Meddle(c, host[c])
     \/ /\ To(c, AfterFailure(c, "say"))
        /\ UNCHANGED <<registered, meddled>>
  /\ UNCHANGED <<vars, config, binary, running>>

(* It is asked to start the service; the process itself starts later, or never. *)
AskStart(c) ==
  /\ at[c] = "start"
  /\ \/ host[c] \in registered /\ To(c, "say")
     \/ To(c, AfterFailure(c, "say"))
  /\ UNCHANGED <<vars, config, binary, registered, running, meddled>>

(* "Installation complete." *)
Say(c) ==
  /\ at[c] = "say"
  /\ To(c, "complete")
  /\ meddled' = meddled \ {c}
  /\ UNCHANGED <<vars, config, binary, registered, running>>

(* The service's process starts: for the first time, after a crash, or with    *)
(* the host.  It loads the configuration itself, and ends if it cannot.        *)
StartService(h) ==
  /\ h \in registered
  /\ running' = [running EXCEPT ![h] =
                   IF h \in binary /\ ConfigLoads(h) THEN config[h].jwt ELSE None]
  /\ UNCHANGED <<vars, at, config, binary, registered, meddled>>

(* --uninstall, which needs a configuration too. *)
Uninstall(h) ==
  /\ h \in registered \cap binary /\ ConfigLoads(h)
  /\ registered' = registered \ {h}
  /\ running' = [running EXCEPT ![h] = None]
  /\ Meddle(None, h)
  /\ UNCHANGED <<vars, at, config, binary>>

Script(c) ==
  \/ WriteConfig(c) \/ Restrict(c) \/ Fetch(c) \/ FetchFails(c)
  \/ Check(c) \/ Register(c) \/ AskStart(c) \/ Say(c)

InstallerNext ==
  \/ Next /\ UNCHANGED machineVars
  \/ \E c \in Calls : Script(c)
  \/ \E h \in Hosts : StartService(h) \/ Uninstall(h)

InstallerSpec == InstallerInit /\ [][InstallerNext]_allVars

-----------------------------------------------------------------------------
MachineTypeOK ==
  /\ at \in [Calls -> {"begin", "complete", "died"} \cup Midway]
  /\ config \in [Hosts -> File \cup {None}]
  /\ binary \subseteq Hosts /\ registered \subseteq Hosts
  /\ running \in [Hosts -> Calls \cup {None}]
  /\ meddled \subseteq Calls

(* "Installation complete." is said of a machine whose service is registered,   *)
(* and whose next start reads the JWT of this very installation with a whole    *)
(* binary that accepts the file's mode; and the portal holds the hash of that   *)
(* JWT, unless the device was deleted or registered again meanwhile.  So unless *)
(* another script or a user did something on the host while the script ran:     *)
(* the script looks back at nothing that it did.  Not on Windows, where it is   *)
(* said in any case.  That the agent runs by then is not promised: the process  *)
(* starts when the service manager gets to it.                                  *)
CompleteMeansInstalled ==
  [][\A c \in Calls : at[c] # "complete" /\ at'[c] = "complete" /\ ~OnWindows(c) =>
       \/ c \in meddled
       \/ /\ host[c] \in registered \cap binary
          /\ ConfigLoads(host[c]) /\ config[host[c]].jwt = c
          /\ Live(Target(c)) => Newest(c) \/ Superseded(c)]_allVars

(* An agent that runs is not shut out by what a later script on its host does,  *)
(* complete or not: the portal holds the hash of its JWT, unless its device was *)
(* deleted or registered again, and its configuration is one that the agent     *)
(* would load again, which it does only when no other user can read it.  Its    *)
(* binary may be gone: a failed download removes it, and the agent runs until   *)
(* its next start.                                                              *)
AgentStays ==
  \A h \in Hosts : running[h] # None =>
    /\ host[running[h]] = h
    /\ Live(Target(running[h])) => Newest(running[h]) \/ Superseded(running[h])
    /\ h \in Windows \/ config[h].private
==============================================================================
