----------------------------- MODULE FeatureFlags -----------------------------
(***************************************************************************)
(* A flag is two files: one that disables it, whatever else says, and one  *)
(* that enables it for some hours, or for a day when it does not say for   *)
(* how long.  Operators create and remove them with disable, enable and    *)
(* clear_all, beside each other and beside the orchestrator that asks      *)
(* is_enabled; nobody locks anything, and each call to the file system is  *)
(* a step of its own.                                                      *)
(***************************************************************************)
EXTENDS Clock

CONSTANTS
  Operator,  \* processes that call enable
  Hours,     \* expires_in_hours considered, Never for None
  Day        \* how long an enable file without an expiry counts

ASSUME FlagAssumption == Hours \subseteq Nat \cup {Never} /\ Day \in Nat

VARIABLES
  disableFile, \* whether disable_<name>.flag exists
  enableFile,  \* enable_<name>.flag: whether it exists, its expiry or Never for no text, its mtime
  enabling,    \* each operator: where enable is, the hours asked for, the expiry it computed
  check,       \* is_enabled: where it is, its now and config_override, its answer;
               \* and history: whether the flag was killed when it was asked
  killed,      \* history: disable returned, with no enable or clear_all under way or begun since
  entitled     \* history: no enable so far entitles beyond this time

files == <<disableFile, enableFile>>
flagHistory == <<killed, entitled>>
flagVars == <<now, files, enabling, check, flagHistory>>

Later(a, b) == IF a > b THEN a ELSE b

Override == {"none", "on", "off"}
NoFile == [there |-> FALSE, expiry |-> Never, mtime |-> 0]
Idle == [at |-> "idle", hours |-> Never, expiry |-> Never]

FlagTypeOK ==
  /\ now \in Time
  /\ disableFile \in BOOLEAN
  /\ enableFile \in [there : BOOLEAN, expiry : Nat \cup {Never}, mtime : Time]
  /\ enabling \in [Operator -> [at : {"idle", "exists", "unlink", "file", "write"},
                                 hours : Hours \cup {Never}, expiry : Nat \cup {Never}]]
  /\ check \in [at : {"idle", "exists", "read", "stat"}, now : Time, override : Override,
                answer : BOOLEAN, killed : BOOLEAN]
  /\ killed \in BOOLEAN /\ entitled \in Nat

FlagInit ==
  /\ ClockInit
  /\ disableFile = FALSE /\ enableFile = NoFile
  /\ enabling = [p \in Operator |-> Idle]
  /\ check = [at |-> "idle", now |-> 0, override |-> "none", answer |-> FALSE, killed |-> FALSE]
  /\ killed = FALSE /\ entitled = 0

FlagTick == Passes /\ UNCHANGED <<files, enabling, check, flagHistory>>

(***************************************************************************)
(* disable, enable, clear_all.                                             *)
(***************************************************************************)

Disable ==
  /\ disableFile' = TRUE
  /\ killed' = \A p \in Operator : enabling[p].at = "idle"
  /\ UNCHANGED <<now, enableFile, enabling, check, entitled>>

EnableBegins(p, hours) ==
  /\ enabling[p].at = "idle"
  /\ enabling' = [enabling EXCEPT ![p] = [Idle EXCEPT !.at = "exists", !.hours = hours]]
  /\ killed' = FALSE
  /\ UNCHANGED <<now, files, check, entitled>>

To(p, at) == enabling' = [enabling EXCEPT ![p].at = at]

EnableLooks(p) ==
  /\ enabling[p].at = "exists"
  /\ To(p, IF disableFile THEN "unlink" ELSE "file")
  /\ UNCHANGED <<now, files, check, flagHistory>>

(* A file that went away meanwhile raises, and the flag is not enabled.    *)
EnableUnlinks(p) ==
  /\ enabling[p].at = "unlink"
  /\ disableFile' = FALSE
  /\ enabling' = [enabling EXCEPT ![p] = IF disableFile THEN [@ EXCEPT !.at = "file"] ELSE Idle]
  /\ UNCHANGED <<now, enableFile, check, flagHistory>>

(* touch, of a file that may hold an older text.                           *)
EnableTouches(p) ==
  /\ enabling[p].at = "file" /\ enabling[p].hours = Never
  /\ enableFile' = [enableFile EXCEPT !.there = TRUE, !.mtime = now]
  /\ enabling' = [enabling EXCEPT ![p] = Idle]
  /\ entitled' = Later(entitled, now + Day)
  /\ UNCHANGED <<now, disableFile, check, killed>>

(* write_text, in two steps: the file is emptied, then written.            *)
EnableTruncates(p) ==
  /\ enabling[p].at = "file" /\ enabling[p].hours # Never
  /\ enableFile' = [there |-> TRUE, expiry |-> Never, mtime |-> now]
  /\ enabling' = [enabling EXCEPT ![p].at = "write", ![p].expiry = now + enabling[p].hours]
  /\ entitled' = Later(entitled, now + Later(Day, enabling[p].hours))
  /\ UNCHANGED <<now, disableFile, check, killed>>

EnableWrites(p) ==
  /\ enabling[p].at = "write"
  /\ enableFile' = [there |-> TRUE, expiry |-> enabling[p].expiry, mtime |-> now]
  /\ enabling' = [enabling EXCEPT ![p] = Idle]
  /\ entitled' = Later(entitled, now + Day)
  /\ UNCHANGED <<now, disableFile, check, killed>>

EnableDies(p) ==
  /\ enabling[p].at # "idle"
  /\ enabling' = [enabling EXCEPT ![p] = Idle]
  /\ UNCHANGED <<now, files, check, flagHistory>>

(* clear_all removes the files it finds one by one; with an enable file    *)
(* goes what an enable has opened it to write.                             *)
ClearDisable ==
  /\ disableFile
  /\ disableFile' = FALSE /\ killed' = FALSE
  /\ UNCHANGED <<now, enableFile, enabling, check, entitled>>

ClearEnable ==
  /\ enableFile.there
  /\ enableFile' = NoFile
  /\ enabling' = [p \in Operator |-> IF enabling[p].at = "write" THEN Idle ELSE enabling[p]]
  /\ UNCHANGED <<now, disableFile, check, flagHistory>>

(***************************************************************************)
(* is_enabled, of a flag whose default is off.                             *)
(***************************************************************************)

(* Mutant: the configuration is asked before the disable file.             *)
CheckConfigFirst(override) ==
  /\ check.at = "idle"
  /\ check' = [at |-> IF override = "none" /\ ~disableFile THEN "exists" ELSE "idle", now |-> now,
               override |-> override, answer |-> override = "on", killed |-> killed]
  /\ UNCHANGED <<now, files, enabling, flagHistory>>

CheckDisabled(override) ==
  /\ check.at = "idle"
  /\ check' = [at |-> IF override = "none" /\ ~disableFile THEN "exists" ELSE "idle", now |-> now,
               override |-> override, answer |-> override = "on" /\ ~disableFile, killed |-> killed]
  /\ UNCHANGED <<now, files, enabling, flagHistory>>

Answer(yes) == check' = [check EXCEPT !.at = "idle", !.answer = yes]

CheckEnabled ==
  /\ check.at = "exists"
  /\ IF enableFile.there THEN check' = [check EXCEPT !.at = "read"] ELSE Answer(FALSE)
  /\ UNCHANGED <<now, files, enabling, flagHistory>>

(* A file without an expiry, or one that is gone, is asked for its age.    *)
CheckExpiry ==
  /\ check.at = "read"
  /\ IF enableFile.there /\ enableFile.expiry # Never
     THEN Answer(check.now < enableFile.expiry)
     ELSE check' = [check EXCEPT !.at = "stat"]
  /\ UNCHANGED <<now, files, enabling, flagHistory>>

CheckAge ==
  /\ check.at = "stat"
  /\ Answer(enableFile.there /\ check.now - enableFile.mtime < Day)
  /\ UNCHANGED <<now, files, enabling, flagHistory>>

FlagNext ==
  \/ FlagTick
  \/ Disable \/ ClearDisable \/ ClearEnable
  \/ \E p \in Operator :
       \/ \E hours \in Hours : EnableBegins(p, hours)
       \/ EnableLooks(p) \/ EnableUnlinks(p) \/ EnableTouches(p)
       \/ EnableTruncates(p) \/ EnableWrites(p) \/ EnableDies(p)
  \/ \E override \in Override : CheckDisabled(override)
  \/ CheckEnabled \/ CheckExpiry \/ CheckAge

FlagSpec == FlagInit /\ [][FlagNext]_flagVars

-----------------------------------------------------------------------------
(* Properties.                                                             *)

(* Whatever operators do to each other's files and wherever they are       *)
(* killed, a flag is answered on only if nobody had disabled it for good   *)
(* when it was asked, and the configuration says so or somebody enabled    *)
(* it for longer than that: the hours asked for, or, when it saw the file  *)
(* before its text was in it, a day (feature_flags.py:77).                 *)
OnIsGranted ==
  check.answer => ~check.killed /\ (check.override = "on" \/ check.now < entitled)

=============================================================================
