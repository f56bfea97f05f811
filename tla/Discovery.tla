----------------------------- MODULE Discovery -----------------------------
(***************************************************************************)
(* What a run of SNMP discovery promises to the loop that supervises       *)
(* polling (disco.go, RunDiscoOnTimer): it ends with an error, or it saves *)
(* a set of devices and answers whether polling has to be restarted. The   *)
(* answer is about the number of devices and not about which they are.     *)
(***************************************************************************)
EXTENDS FiniteSets

CONSTANT Keys          \* the names of device entries in the configuration

VARIABLES
  saved,               \* the keys of the configuration file
  verdict              \* "none", or what the last discovery answered

\* The condition of RunDiscoOnTimer, said of the two configurations.
Verdict(old, new) ==
  IF Cardinality(new) # Cardinality(old) THEN "reload" ELSE "same"

DInit == saved \in SUBSET Keys /\ verdict = "none"

\* A discovery begins; nothing has been said about it.
Begin == verdict # "none" /\ verdict' = "none" /\ UNCHANGED saved

\* It saved a configuration.
Merged == /\ verdict = "none"
          /\ \E new \in SUBSET Keys :
                saved' = new /\ verdict' = Verdict(saved, new)

\* It returned an error, before or after it wrote the devices.
Failed == verdict = "none" /\ verdict' = "error" /\ saved' \in SUBSET Keys

DSpec == DInit /\ [][Begin \/ Merged \/ Failed]_<<saved, verdict>>
=============================================================================
