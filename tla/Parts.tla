------------------------------- MODULE Parts -------------------------------
(***************************************************************************)
(* All the parts that call nothing of each other: those of Library, and    *)
(* the log.  In a behaviour one of them moves, chosen at the start.        *)
(***************************************************************************)
EXTENDS Library, Log

partsVars == <<vars, logVars>>

NothingElse == obj = <<>> /\ FileInit /\ \A p \in Movers : ino[Target[p]] = ABSENT

PartsInit == LogInit /\ (LibraryInit \/ (part = "log" /\ NothingElse))

Logging == part = "log" /\ LogNext /\ UNCHANGED vars

PartsNext == (LibraryNext /\ UNCHANGED logVars) \/ Logging

PartsSpec == PartsInit /\ [][PartsNext]_partsVars
=============================================================================
