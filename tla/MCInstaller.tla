----------------------------- MODULE MCInstaller -----------------------------
(* A small instance of Enrollment with the machines it installs agents on:    *)
(* three calls of two hosts, one of them with Windows.                        *)
EXTENDS Installer, FiniteSets, TLC

(* All calls on one host, without Windows, or two of them on the Windows host: *)
(* what only Windows does takes two.                                           *)
MCInit == InstallerInit /\ Cardinality({c \in Calls : OnWindows(c)}) \in {0, 2}

MCSpec == MCInit /\ [][InstallerNext]_allVars

Symmetry == Permutations(Calls) \cup Permutations(Tokens)
==============================================================================
