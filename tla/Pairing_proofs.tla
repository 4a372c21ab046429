--------------------------- MODULE Pairing_proofs ---------------------------
(***************************************************************************)
(* What holds of pairings for every number of terminals and devices.       *)
(***************************************************************************)
EXTENDS Pairing, TLAPS

LEMMA InitTypeOK == Init => TypeOK
  BY DEF Init, TypeOK, Stores, ControlPoints

\* A call to the school leaves its record of every device well typed.
LEMMA SchoolType ==
  ASSUME TypeOK, NEW d \in Devices, NEW answer, SchoolRevokes(d, answer)
  PROVE  school' \in [Devices -> {"unknown", "enrolled", "revoked"}]
  BY DEF SchoolRevokes, TypeOK

\* The steps of pair keep the type invariant.
LEMMA PairTypeOK ==
  ASSUME TypeOK, NEW t \in Terminals, Pair(t)
  PROVE  TypeOK'
<1> USE PairingAssumption DEF TypeOK, ControlPoints, Stores, Places, Configs, historyVars
<1>1. CASE BeginPair(t)
  BY <1>1 DEF BeginPair, Begin
<1>2. CASE RefusePair(t)
  BY <1>2 DEF RefusePair, Begin
<1>3. CASE EnrollFails(t)
  BY <1>3 DEF EnrollFails, Finish
<1>4. CASE SchoolEnrolls(t)
  <2> PICK d \in Devices : /\ school' = [school EXCEPT ![d] = "enrolled"]
                           /\ device' = [device EXCEPT ![t] = d]
    BY <1>4 DEF SchoolEnrolls
  <2> QED
    BY <1>4 DEF SchoolEnrolls, Goto
<1>5. CASE EnrollReturns(t)
  BY <1>5 DEF EnrollReturns, Goto
<1>6. CASE EnrollLost(t) \/ EnrollRejects(t)
  BY <1>6 DEF EnrollLost, EnrollRejects, Finish
<1>7. CASE KeepInKeyring(t)
  BY <1>7 DEF KeepInKeyring, Goto
<1>8. CASE KeyringRefuses(t)
  BY <1>8 DEF KeyringRefuses, Goto
<1>9. CASE KeepInFile(t)
  BY <1>9 DEF KeepInFile, Goto
<1>10. CASE WriteConfig(t)
  BY <1>10 DEF WriteConfig, Finish
<1>11. CASE WriteFails(t)
  BY <1>11 DEF WriteFails, Goto
<1>12. CASE UndoKeyring(t)
  BY <1>12 DEF UndoKeyring, Goto, KeyringClears
<1>13. CASE GiveUp(t)
  <2> PICK answer \in SchoolAnswers(device[t]) :
          /\ SchoolRevokes(device[t], answer)
          /\ dropped' \in {dropped, dropped \cup {device[t]}}
    BY <1>13 DEF GiveUp
  <2>1. device[t] \in Devices
    BY <1>13 DEF GiveUp
  <2>2. school' \in [Devices -> {"unknown", "enrolled", "revoked"}]
    BY <2>1, SchoolType
  <2> QED
    BY <1>13, <2>1, <2>2 DEF GiveUp, Finish
<1> QED
  BY <1>1, <1>2, <1>3, <1>4, <1>5, <1>6, <1>7, <1>8, <1>9, <1>10, <1>11, <1>12, <1>13 DEF Pair

\* The steps of unpair keep it.
LEMMA UnpairTypeOK ==
  ASSUME TypeOK, NEW t \in Terminals, Unpair(t)
  PROVE  TypeOK'
<1> USE PairingAssumption DEF TypeOK, ControlPoints, Stores, Places, Configs, historyVars
<1>1. CASE BeginUnpair(t)
  BY <1>1 DEF BeginUnpair, Begin, LoadMaySucceed, LeftToUser
<1>2. CASE BeginUnpairBlind(t)
  BY <1>2 DEF BeginUnpairBlind, Begin, LeftToUser
<1>3. CASE RevokeDevice(t)
  <2> PICK answer \in SchoolAnswers(device[t]) :
          /\ SchoolRevokes(device[t], answer)
          /\ \/ Goto(t, "delete") /\ UNCHANGED <<place, victim>>
             \/ Finish(t, "error")
    BY <1>3 DEF RevokeDevice, HearsFromSchool
  <2>1. device[t] \in Devices
    BY <1>3 DEF RevokeDevice, HearsFromSchool
  <2>2. school' \in [Devices -> {"unknown", "enrolled", "revoked"}]
    BY <2>1, SchoolType
  <2> QED
    BY <1>3, <2>2 DEF RevokeDevice, HearsFromSchool, Goto, Finish
<1>4. CASE DeleteLoads(t)
  BY <1>4 DEF DeleteLoads, Goto, LoadMaySucceed
<1>5. CASE ClearKeyring(t)
  BY <1>5 DEF ClearKeyring, Goto, KeyringClears
<1>6. CASE RemoveConfig(t)
  BY <1>6 DEF RemoveConfig, Goto
<1>7. CASE RemoveFails(t)
  BY <1>7 DEF RemoveFails, Finish
<1>8. CASE RemoveStatus(t)
  BY <1>8 DEF RemoveStatus, Finish
<1> QED
  BY <1>1, <1>2, <1>3, <1>4, <1>5, <1>6, <1>7, <1>8 DEF Unpair

LEMMA StepTypeOK == TypeOK /\ [Next]_vars => TypeOK'
<1> SUFFICES ASSUME TypeOK, [Next]_vars PROVE TypeOK'
  OBVIOUS
<1>1. ASSUME NEW t \in Terminals, Pair(t) PROVE TypeOK'
  BY <1>1, PairTypeOK
<1>2. ASSUME NEW t \in Terminals, Unpair(t) PROVE TypeOK'
  BY <1>2, UnpairTypeOK
<1>3. ASSUME NEW t \in Terminals, Kill(t) PROVE TypeOK'
  BY <1>3 DEF Kill, Finish, TypeOK, ControlPoints, Enrolled, Stores, Places
<1>4. ASSUME NEW d \in Devices, AdminRevokes(d) PROVE TypeOK'
  BY <1>4 DEF AdminRevokes, commandVars, historyVars, TypeOK
<1>5. CASE UNCHANGED vars
  BY <1>5 DEF vars, commandVars, historyVars, TypeOK
<1> QED
  BY <1>1, <1>2, <1>3, <1>4, <1>5 DEF Next

\* Every reachable state is well typed, and a command has the token of a device
\* in hand wherever the code uses one.
THEOREM TypeCorrect == Spec => []TypeOK
  BY InitTypeOK, StepTypeOK, PTL DEF Spec

-----------------------------------------------------------------------------
(***************************************************************************)
(* unpair revokes before it removes                                        *)
(***************************************************************************)

\* Where the command of t is in Store.Delete.
Deleting(t) == at[t] \in {"delete", "clear", "remove", "removeStatus"}

\* What unpair without --local-only knows in terminal t once the school has
\* taken its request, until the next command.
UnpairInv(t) ==
    /\ at[t] # "idle" => report[t] = "none"
    /\ command[t] = "unpair" /\ (Deleting(t) \/ report[t] = "removed")
           => device[t] \in Devices /\ school[device[t]] = "revoked"

RevokedInv == TypeOK /\ \A t \in Terminals : UnpairInv(t)

\* A revoked device is never enrolled again.
LEMMA RevokedStays ==
  ASSUME TypeOK, [Next]_vars, NEW d \in Devices, school[d] = "revoked"
  PROVE  school'[d] = "revoked"
<1>1. ASSUME NEW t \in Terminals, Pair(t) PROVE school'[d] = "revoked"
  BY <1>1 DEF Pair, BeginPair, RefusePair, EnrollFails, SchoolEnrolls, EnrollReturns,
     EnrollLost, EnrollRejects, KeepInKeyring, KeyringRefuses, KeepInFile, WriteConfig, WriteFails,
     UndoKeyring, GiveUp, SchoolRevokes, TypeOK
<1>2. ASSUME NEW t \in Terminals, Unpair(t) PROVE school'[d] = "revoked"
  BY <1>2 DEF Unpair, BeginUnpair, BeginUnpairBlind, RevokeDevice, HearsFromSchool, DeleteLoads,
     ClearKeyring, RemoveConfig, RemoveFails, RemoveStatus, SchoolRevokes, TypeOK
<1> QED
  BY <1>1, <1>2 DEF Next, Kill, AdminRevokes, vars, TypeOK

\* The steps of pair leave every terminal's knowledge as it is.
LEMMA PairUnpairInv ==
  ASSUME TypeOK, NEW t \in Terminals, Pair(t), NEW u \in Terminals, UnpairInv(u),
         \A d \in Devices : school[d] = "revoked" => school'[d] = "revoked"
  PROVE  UnpairInv(u)'
<1> USE DEF TypeOK, UnpairInv, Deleting
<1>1. CASE BeginPair(t) \/ RefusePair(t)
  BY <1>1 DEF BeginPair, RefusePair, Begin
<1>2. CASE EnrollFails(t) \/ EnrollLost(t) \/ EnrollRejects(t)
  BY <1>2 DEF EnrollFails, EnrollLost, EnrollRejects, Finish
<1>3. CASE SchoolEnrolls(t)
  BY <1>3 DEF SchoolEnrolls, Goto
<1>4. CASE EnrollReturns(t) \/ KeepInKeyring(t) \/ KeepInFile(t)
  BY <1>4 DEF EnrollReturns, KeepInKeyring, KeepInFile, Goto
<1>5. CASE KeyringRefuses(t)
  BY <1>5 DEF KeyringRefuses, Goto
<1>6. CASE WriteConfig(t) \/ GiveUp(t)
  BY <1>6 DEF WriteConfig, GiveUp, Finish
<1>7. CASE WriteFails(t) \/ UndoKeyring(t)
  BY <1>7 DEF WriteFails, UndoKeyring, Goto
<1> QED
  BY <1>1, <1>2, <1>3, <1>4, <1>5, <1>6, <1>7 DEF Pair

\* unpair comes to Delete only with the device revoked, and stays there with it.
LEMMA UnpairUnpairInv ==
  ASSUME TypeOK, NEW t \in Terminals, Unpair(t), NEW u \in Terminals, UnpairInv(u),
         \A d \in Devices : school[d] = "revoked" => school'[d] = "revoked"
  PROVE  UnpairInv(u)'
<1> USE DEF TypeOK, UnpairInv, Deleting
<1>1. CASE BeginUnpair(t) \/ BeginUnpairBlind(t)
  BY <1>1 DEF BeginUnpair, BeginUnpairBlind, Begin
<1>2. CASE RevokeDevice(t)
  <2>1. device[t] \in Devices
    BY <1>2 DEF RevokeDevice, HearsFromSchool
  <2>2. CASE Goto(t, "delete") /\ school'[device[t]] = "revoked"
    BY <1>2, <2>1, <2>2 DEF RevokeDevice, HearsFromSchool, Goto
  <2>3. CASE Finish(t, "error")
    BY <1>2, <2>3 DEF RevokeDevice, HearsFromSchool, Finish
  <2> QED
    BY <1>2, <2>1, <2>2, <2>3 DEF RevokeDevice, HearsFromSchool, SchoolRevokes, Accepted
<1>3. CASE DeleteLoads(t)
  BY <1>3 DEF DeleteLoads, Goto
<1>4. CASE ClearKeyring(t) \/ RemoveConfig(t)
  BY <1>4 DEF ClearKeyring, RemoveConfig, Goto
<1>5. CASE RemoveFails(t) \/ RemoveStatus(t)
  BY <1>5 DEF RemoveFails, RemoveStatus, Finish
<1> QED
  BY <1>1, <1>2, <1>3, <1>4, <1>5 DEF Unpair

LEMMA StepRevokedInv == RevokedInv /\ [Next]_vars => RevokedInv'
<1> SUFFICES ASSUME RevokedInv, [Next]_vars PROVE RevokedInv'
  OBVIOUS
<1>1. TypeOK'
  BY StepTypeOK DEF RevokedInv
<1>2. \A d \in Devices : school[d] = "revoked" => school'[d] = "revoked"
  BY RevokedStays DEF RevokedInv
<1>3. ASSUME NEW u \in Terminals PROVE UnpairInv(u)'
  <2> UnpairInv(u) /\ TypeOK
    BY DEF RevokedInv
  <2>1. CASE \E t \in Terminals : Pair(t)
    BY <1>2, <2>1, PairUnpairInv
  <2>2. CASE \E t \in Terminals : Unpair(t)
    BY <1>2, <2>2, UnpairUnpairInv
  <2>3. ASSUME NEW t \in Terminals, Kill(t) PROVE UnpairInv(u)'
    BY <2>3 DEF Kill, Finish, UnpairInv, Deleting, TypeOK
  <2>4. ASSUME NEW d \in Devices, AdminRevokes(d) PROVE UnpairInv(u)'
    BY <1>2, <2>4 DEF AdminRevokes, commandVars, historyVars, UnpairInv, Deleting
  <2>5. CASE UNCHANGED vars
    BY <2>5 DEF vars, commandVars, historyVars, UnpairInv, Deleting
  <2> QED
    BY <2>1, <2>2, <2>3, <2>4, <2>5 DEF Next
<1> QED
  BY <1>1, <1>3 DEF RevokedInv

\* When unpair without --local-only reports success, the school has revoked the
\* device, for every number of terminals, devices, retries and lost answers.
THEOREM UnpairRevokes == Spec => []RemovedMeansRevoked
<1>1. Init => RevokedInv
  BY InitTypeOK DEF RevokedInv, UnpairInv, Deleting, Init
<1>2. RevokedInv => RemovedMeansRevoked
  BY DEF RevokedInv, UnpairInv, RemovedMeansRevoked
<1> QED
  BY <1>1, <1>2, StepRevokedInv, PTL DEF Spec

-----------------------------------------------------------------------------
(***************************************************************************)
(* One command at a time                                                   *)
(*                                                                         *)
(* Nothing locks the configuration directory, and two commands that overlap*)
(* do break what follows.  It holds of any number of terminals as long as  *)
(* a command is started when no other is under way.                        *)
(***************************************************************************)

\* No two commands overlap.
OneAtATime == \A t, u \in Terminals : at[t] # "idle" /\ at[u] # "idle" => t = u

\* The companion has given up device d for a reason.
GivenUp(d) == d \in excused \cup dropped \/ school[d] = "revoked"

\* What the command of terminal t knows of config.json, the keyring and the
\* school at each of its points, when it is alone.
AloneInv(t) ==
    /\ at[t] = "enroll" => device[t] = None
    /\ at[t] \in {"enroll", "enrolling", "keep", "write", "removeStatus"} => config = None
    /\ at[t] = "write" /\ place[t] = "keyring" => device[t] \in keyring
    /\ at[t] \in {"undo", "giveup"} => config = None \/ config.device = device[t]
    /\ at[t] = "revoke" => LoadMaySucceed /\ config.device = device[t]
    /\ at[t] \in {"delete", "clear", "remove"} => config = None \/ GivenUp(config.device)
    /\ Deleting(t) => device[t] = None \/ GivenUp(device[t])
    /\ at[t] = "clear" => config # None /\ victim[t] = config.device

\* The command of terminal t handles device d.
Holds(t, d) == at[t] # "idle" /\ device[t] = d

\* config.json is about device d.
InConfig(d) == config # None /\ config.device = d

\* EnrolledIsAccountedFor and KeyringBacksConfig with t as the only terminal in use.
AccountedInv(t) ==
    \A d \in Devices : school[d] = "enrolled" /\ ~GivenUp(d) => Holds(t, d) \/ InConfig(d)

BackedInv(t) ==
    config # None /\ config.place = "keyring" /\ config.device \notin keyring
        => GivenUp(config.device) \/ Holds(t, config.device)

TerminalInv(t) == AloneInv(t) /\ AccountedInv(t) /\ BackedInv(t)

PairingInv ==
    /\ RevokedInv
    /\ \A t \in Terminals : AloneInv(t)
    /\ EnrolledIsAccountedFor
    /\ KeyringBacksConfig

\* What is excused or dropped stays so.
Remembers == excused \subseteq excused' /\ dropped \subseteq dropped'

LEMMA HistoryStays == TypeOK /\ [Next]_vars => Remembers
<1> SUFFICES ASSUME TypeOK, [Next]_vars PROVE Remembers
  OBVIOUS
<1> USE DEF Remembers
<1>1. ASSUME NEW t \in Terminals, Pair(t) PROVE Remembers
  BY <1>1 DEF Pair, BeginPair, RefusePair, EnrollFails, SchoolEnrolls, EnrollReturns,
     EnrollLost, EnrollRejects, KeepInKeyring, KeyringRefuses, KeepInFile, WriteConfig,
     WriteFails, UndoKeyring, GiveUp, historyVars
<1>2. ASSUME NEW t \in Terminals, Unpair(t) PROVE Remembers
  BY <1>2 DEF Unpair, BeginUnpair, BeginUnpairBlind, RevokeDevice, HearsFromSchool,
     DeleteLoads, ClearKeyring, RemoveConfig, RemoveFails, RemoveStatus, LeftToUser,
     historyVars
<1> QED
  BY <1>1, <1>2 DEF Next, Kill, AdminRevokes, vars, historyVars

\* A device that is given up stays so.
LEMMA GivenUpStays ==
  ASSUME TypeOK, [Next]_vars, NEW d \in Devices, GivenUp(d)
  PROVE  GivenUp(d)'
  BY HistoryStays, RevokedStays DEF GivenUp, Remembers

\* The steps of pair, in the only terminal in use.
LEMMA PairTerminalInv ==
  ASSUME TypeOK, NEW t \in Terminals, TerminalInv(t), Pair(t),
         \A d \in Devices : GivenUp(d) => GivenUp(d)'
  PROVE  TerminalInv(t)'
<1> USE PairingAssumption DEF TypeOK, Configs, TerminalInv, AloneInv, AccountedInv,
        BackedInv, Holds, InConfig, Deleting, historyVars
<1>1. CASE BeginPair(t)
  BY <1>1 DEF BeginPair, Begin, GivenUp
<1>2. CASE RefusePair(t)
  BY <1>2 DEF RefusePair, Begin, GivenUp
<1>3. CASE EnrollFails(t)
  BY <1>3 DEF EnrollFails, Finish, GivenUp
<1>4. CASE SchoolEnrolls(t)
  <2> PICK d \in Devices : /\ school[d] = "unknown"
                           /\ school' = [school EXCEPT ![d] = "enrolled"]
                           /\ device' = [device EXCEPT ![t] = d]
    BY <1>4 DEF SchoolEnrolls
  <2> QED
    BY <1>4 DEF SchoolEnrolls, Goto, GivenUp
<1>5. CASE EnrollReturns(t)
  BY <1>5 DEF EnrollReturns, Goto, GivenUp
<1>6. CASE EnrollLost(t) \/ EnrollRejects(t)
  BY <1>6 DEF EnrollLost, EnrollRejects, Finish, GivenUp
<1>7. CASE KeepInKeyring(t)
  BY <1>7 DEF KeepInKeyring, Goto, GivenUp
<1>8. CASE KeyringRefuses(t)
  BY <1>8 DEF KeyringRefuses, Goto, GivenUp
<1>9. CASE KeepInFile(t)
  BY <1>9 DEF KeepInFile, Goto, GivenUp
<1>10. CASE WriteConfig(t)
  <2>1. config' = [device |-> device[t], place |-> place[t]] /\ at'[t] = "idle"
    BY <1>10 DEF WriteConfig, Finish
  <2>2. config' \in Configs
    BY <1>10, <2>1 DEF WriteConfig
  <2>3. AloneInv(t)' /\ BackedInv(t)'
    BY <1>10, <2>1 DEF WriteConfig
  <2>4. AccountedInv(t)'
    BY <1>10, <2>1, <2>2 DEF WriteConfig
  <2> QED
    BY <2>3, <2>4
<1>11. CASE WriteFails(t)
  BY <1>11 DEF WriteFails, Goto, GivenUp
<1>12. CASE UndoKeyring(t)
  BY <1>12 DEF UndoKeyring, Goto, KeyringClears, GivenUp
<1>13. CASE GiveUp(t)
  <2>1. PICK answer \in SchoolAnswers(device[t]) :
            /\ SchoolRevokes(device[t], answer)
            /\ dropped' = IF answer \in Accepted THEN dropped
                          ELSE dropped \cup {device[t]}
    BY <1>13 DEF GiveUp
  <2>2. device[t] \in Devices
    BY <1>13 DEF GiveUp
  <2>3. GivenUp(device[t])'
    BY <1>13, <2>1, <2>2 DEF GiveUp, GivenUp, SchoolRevokes, Accepted
  <2>4. \A d \in Devices : /\ school'[d] = "enrolled" => school[d] = "enrolled"
                           /\ d \notin dropped' => d \notin dropped
    BY <2>1, <2>2 DEF SchoolRevokes, Accepted
  <2> QED
    BY <1>13, <2>2, <2>3, <2>4 DEF GiveUp, Finish, GivenUp
<1> QED
  BY <1>1, <1>2, <1>3, <1>4, <1>5, <1>6, <1>7, <1>8, <1>9, <1>10, <1>11, <1>12, <1>13 DEF Pair

\* The steps of unpair.
LEMMA UnpairTerminalInv ==
  ASSUME TypeOK, NEW t \in Terminals, UnpairInv(t), TerminalInv(t), Unpair(t),
         \A d \in Devices : GivenUp(d) => GivenUp(d)'
  PROVE  TerminalInv(t)'
<1> USE PairingAssumption DEF TypeOK, Configs, TerminalInv, AloneInv, AccountedInv,
        BackedInv, Holds, InConfig, Deleting, historyVars
<1>1. CASE BeginUnpair(t)
  BY <1>1 DEF BeginUnpair, Begin, LoadMaySucceed, LeftToUser, GivenUp
<1>2. CASE BeginUnpairBlind(t)
  BY <1>2 DEF BeginUnpairBlind, Begin, LeftToUser, GivenUp
<1>3. CASE RevokeDevice(t)
  <2>1. PICK answer \in SchoolAnswers(device[t]) :
            /\ SchoolRevokes(device[t], answer)
            /\ IF answer \in Accepted
               THEN Goto(t, "delete") /\ UNCHANGED <<place, victim>>
               ELSE Finish(t, "error")
    BY <1>3 DEF RevokeDevice, HearsFromSchool
  <2>2. device[t] \in Devices /\ InConfig(device[t])
    BY <1>3 DEF RevokeDevice, HearsFromSchool, LoadMaySucceed
  <2>3. \A d \in Devices : school'[d] = "enrolled" => school[d] = "enrolled"
    BY <2>1, <2>2 DEF SchoolRevokes
  <2>4. AccountedInv(t)'
    BY <1>3, <2>2, <2>3 DEF RevokeDevice, HearsFromSchool
  <2>5. BackedInv(t)'
    BY <1>3, <2>2 DEF RevokeDevice, HearsFromSchool, LoadMaySucceed
  <2>6. CASE Goto(t, "delete") /\ UNCHANGED <<place, victim>> /\ GivenUp(device[t])'
    <3>1. AloneInv(t)'
      BY <1>3, <2>2, <2>6 DEF RevokeDevice, HearsFromSchool, Goto
    <3> QED
      BY <2>4, <2>5, <3>1
  <2>7. CASE Finish(t, "error")
    <3>1. AloneInv(t)'
      BY <2>7 DEF Finish
    <3> QED
      BY <2>4, <2>5, <3>1
  <2>8. answer \in Accepted => GivenUp(device[t])'
    <3>1. device' = device
      BY <1>3 DEF RevokeDevice, HearsFromSchool
    <3> QED
      BY <2>1, <2>2, <3>1 DEF SchoolRevokes, Accepted, GivenUp
  <2> QED
    BY <2>1, <2>6, <2>7, <2>8
<1>4. CASE DeleteLoads(t)
  BY <1>4 DEF DeleteLoads, Goto, LoadMaySucceed, GivenUp
<1>5. CASE ClearKeyring(t)
  BY <1>5 DEF ClearKeyring, Goto, KeyringClears, GivenUp
<1>6. CASE RemoveConfig(t)
  BY <1>6 DEF RemoveConfig, Goto, GivenUp
<1>7. CASE RemoveFails(t)
  BY <1>7 DEF RemoveFails, Finish, GivenUp
<1>8. CASE RemoveStatus(t)
  BY <1>8 DEF RemoveStatus, Finish, GivenUp
<1> QED
  BY <1>1, <1>2, <1>3, <1>4, <1>5, <1>6, <1>7, <1>8 DEF Unpair

\* A terminal at rest knows nothing.
LEMMA AtRest ==
  ASSUME NEW u, at[u] = "idle"
  PROVE  AloneInv(u)
  BY DEF AloneInv, Deleting

\* With t as the only terminal in use, its view is the invariant.
LEMMA TerminalView ==
  ASSUME PairingInv, NEW t \in Terminals,
         \A u \in Terminals : u # t => at[u] = "idle"
  PROVE  TerminalInv(t)
  BY DEF PairingInv, TerminalInv, AccountedInv, BackedInv, Holds, InConfig, InHand,
     EnrolledIsAccountedFor, KeyringBacksConfig, GivenUp

\* Some terminal has a view of its own that is enough.
OneView ==
    /\ RevokedInv
    /\ \E t \in Terminals : /\ TerminalInv(t)
                            /\ \A u \in Terminals : u # t => at[u] = "idle"

\* And the other way around.
LEMMA ViewIsEnough == OneView => PairingInv
<1> SUFFICES ASSUME RevokedInv, NEW t \in Terminals, TerminalInv(t),
                    \A u \in Terminals : u # t => at[u] = "idle"
             PROVE  PairingInv
  BY DEF OneView
<1>1. \A d \in Devices : Holds(t, d) => InHand(d)
  BY DEF Holds, InHand
<1>2. EnrolledIsAccountedFor
  BY <1>1 DEF TerminalInv, AccountedInv, InConfig, GivenUp, EnrolledIsAccountedFor
<1>3. KeyringBacksConfig
  <2>1. config # None => config.device \in Devices
    BY DEF RevokedInv, TypeOK, Configs
  <2> QED
    BY <1>1, <2>1 DEF TerminalInv, BackedInv, GivenUp, KeyringBacksConfig
<1>4. \A u \in Terminals : AloneInv(u)
  BY AtRest DEF TerminalInv
<1> QED
  BY <1>2, <1>3, <1>4 DEF PairingInv

LEMMA ViewIsEnoughNext == OneView' => PairingInv'
  BY ViewIsEnough, PTL

\* A step of a command concerns one terminal; the others stay where they are.
LEMMA StepOfOne ==
  ASSUME TypeOK, NEW t \in Terminals, Pair(t) \/ Unpair(t) \/ Kill(t),
         NEW u \in Terminals, u # t
  PROVE  /\ at'[u] = at[u] /\ device'[u] = device[u]
         /\ place'[u] = place[u] /\ victim'[u] = victim[u]
<1>1. CASE Pair(t)
  BY <1>1 DEF Pair, BeginPair, RefusePair, EnrollFails, SchoolEnrolls, EnrollReturns,
     EnrollLost, EnrollRejects, KeepInKeyring, KeyringRefuses, KeepInFile, WriteConfig, WriteFails,
     UndoKeyring, GiveUp, Begin, Goto, Finish, TypeOK
<1>2. CASE Unpair(t)
  BY <1>2 DEF Unpair, BeginUnpair, BeginUnpairBlind, RevokeDevice, HearsFromSchool, DeleteLoads,
     ClearKeyring, RemoveConfig, RemoveFails, RemoveStatus, Begin, Goto, Finish, TypeOK
<1>3. CASE Kill(t)
  BY <1>3 DEF Kill, Finish, TypeOK
<1> QED
  BY <1>1, <1>2, <1>3

\* Kill excuses the device pair has in hand; one that unpair has in hand is still
\* the paired one, or given up.
LEMMA KillTerminalInv ==
  ASSUME TypeOK, NEW t \in Terminals, TerminalInv(t), Kill(t),
         \A d \in Devices : GivenUp(d) => GivenUp(d)'
  PROVE  TerminalInv(t)'
<1>1. at'[t] = "idle" /\ UNCHANGED <<config, keyring, school, device>>
  BY DEF Kill, Finish, TypeOK
<1>2. AloneInv(t)'
  BY <1>1 DEF AloneInv, Deleting
<1>3. ASSUME NEW d \in Devices, Holds(t, d) PROVE GivenUp(d)' \/ InConfig(d)
  <2>1. CASE at[t] \in Enrolled
    BY <1>3, <2>1 DEF Kill, Holds, GivenUp
  <2>2. CASE at[t] = "revoke"
    BY <1>3, <2>2 DEF TerminalInv, AloneInv, LoadMaySucceed, Holds, InConfig
  <2>3. CASE Deleting(t)
    BY <1>3, <2>3, PairingAssumption DEF TerminalInv, AloneInv, Holds
  <2>4. at[t] # "enroll"
    BY <1>3, PairingAssumption DEF TerminalInv, AloneInv, Holds
  <2> QED
    BY <1>3, <2>1, <2>2, <2>3, <2>4 DEF Holds, TypeOK, ControlPoints, Enrolled, Deleting
<1>4. AccountedInv(t)'
  BY <1>1, <1>3 DEF TerminalInv, AccountedInv, InConfig
<1>5. ASSUME NEW d \in Devices, config # None, config.device = d,
             config.place = "keyring", d \notin keyring
      PROVE  GivenUp(d)'
  <2>1. CASE GivenUp(d)
    BY <2>1
  <2>2. CASE Holds(t, d) /\ at[t] \in Enrolled
    BY <2>2 DEF Kill, Holds, GivenUp
  <2>3. CASE Holds(t, d) /\ Deleting(t)
    BY <2>3, PairingAssumption DEF TerminalInv, AloneInv, Holds
  <2>4. at[t] # "revoke"
    BY <1>5 DEF TerminalInv, AloneInv, LoadMaySucceed
  <2>5. Holds(t, d) => at[t] # "enroll"
    BY PairingAssumption DEF TerminalInv, AloneInv, Holds
  <2>6. GivenUp(d) \/ Holds(t, d)
    BY <1>5 DEF TerminalInv, BackedInv
  <2> QED
    BY <2>1, <2>2, <2>3, <2>4, <2>5, <2>6 DEF Holds, TypeOK, ControlPoints, Enrolled, Deleting
<1>6. BackedInv(t)'
  <2>1. config # None => config.device \in Devices
    BY DEF TypeOK, Configs
  <2> QED
    BY <1>1, <1>5, <2>1 DEF BackedInv, GivenUp
<1> QED
  BY <1>2, <1>4, <1>6 DEF TerminalInv

\* A command that ends as soon as it starts changes nothing that lasts.
LEMMA RefusedChangesNothing ==
  ASSUME TypeOK, NEW t \in Terminals, Pair(t) \/ Unpair(t) \/ Kill(t),
         at[t] = "idle", at'[t] = "idle"
  PROVE  UNCHANGED <<at, config, keyring, school, excused, dropped>>
<1>1. CASE Pair(t)
  BY <1>1 DEF Pair, BeginPair, RefusePair, EnrollFails, SchoolEnrolls, EnrollReturns,
     EnrollLost, EnrollRejects, KeepInKeyring, KeyringRefuses, KeepInFile, WriteConfig, WriteFails,
     UndoKeyring, GiveUp, Begin, TypeOK, historyVars
<1>2. CASE Unpair(t)
  BY <1>2 DEF Unpair, BeginUnpair, BeginUnpairBlind, RevokeDevice, HearsFromSchool, DeleteLoads,
     ClearKeyring, RemoveConfig, RemoveFails, RemoveStatus, Begin, TypeOK, historyVars
<1> QED
  BY <1>1, <1>2 DEF Kill

\* Every step of one of several terminals in turn keeps the invariant.
LEMMA CommandPairingInv ==
  ASSUME PairingInv, OneAtATime, OneAtATime', RevokedInv', [Next]_vars,
         NEW t \in Terminals, Pair(t) \/ Unpair(t) \/ Kill(t)
  PROVE  PairingInv'
<1>0. TypeOK /\ UnpairInv(t)
  BY DEF PairingInv, RevokedInv
<1>1. \A d \in Devices : GivenUp(d) => GivenUp(d)'
  BY <1>0, GivenUpStays
<1>2. \A u \in Terminals : u # t => /\ at'[u] = at[u] /\ device'[u] = device[u]
                                      /\ place'[u] = place[u] /\ victim'[u] = victim[u]
  BY <1>0, StepOfOne
<1>3. CASE at[t] = "idle" /\ at'[t] = "idle"
  <2>1. UNCHANGED <<at, config, keyring, school, excused, dropped>>
    BY <1>0, <1>3, RefusedChangesNothing
  <2>2. \A d : InHand(d)' <=> InHand(d)
    BY <1>2, <1>3, <2>1 DEF InHand
  <2>3. EnrolledIsAccountedFor' /\ KeyringBacksConfig'
    BY <2>1, <2>2 DEF PairingInv, EnrolledIsAccountedFor, KeyringBacksConfig
  <2>4. ASSUME NEW u \in Terminals PROVE AloneInv(u)'
    <3>1. CASE at[u] = "idle"
      BY <2>1, <3>1 DEF AloneInv, Deleting
    <3>2. CASE at[u] # "idle"
      <4>1. u # t
        BY <1>3, <3>2
      <4>2. AloneInv(u)
        BY DEF PairingInv
      <4> QED
        BY <1>2, <2>1, <4>1, <4>2 DEF AloneInv, Deleting, LoadMaySucceed, GivenUp
    <3> QED
      BY <3>1, <3>2
  <2> QED
    BY <2>3, <2>4 DEF PairingInv
<1>4. CASE at[t] # "idle" \/ at'[t] # "idle"
  <2>1. \A u \in Terminals : u # t => at[u] = "idle" /\ at'[u] = "idle"
    BY <1>2, <1>4 DEF OneAtATime
  <2>2. TerminalInv(t)
    BY <2>1, TerminalView
  <2>3. TerminalInv(t)'
    BY <1>0, <1>1, <2>2, PairTerminalInv, UnpairTerminalInv, KillTerminalInv
  <2> QED
    BY <2>1, <2>3, ViewIsEnoughNext DEF OneView
<1> QED
  BY <1>3, <1>4

\* The school takes a device back; nothing that anyone knows depends on its
\* being enrolled.
LEMMA AdminPairingInv ==
  ASSUME PairingInv, RevokedInv', [Next]_vars, NEW d \in Devices, AdminRevokes(d)
  PROVE  PairingInv'
<1>0. TypeOK
  BY DEF PairingInv, RevokedInv
<1>1. \A e \in Devices : GivenUp(e) => GivenUp(e)'
  BY <1>0, GivenUpStays
<1>2. UNCHANGED <<at, device, place, victim, config, keyring, excused, dropped>>
  BY DEF AdminRevokes, commandVars, historyVars
<1>3. \A e \in Devices : school'[e] = "enrolled" => school[e] = "enrolled"
  BY <1>0 DEF AdminRevokes, TypeOK
<1>4. config # None => config.device \in Devices
  BY <1>0 DEF TypeOK, Configs
<1>5. \A e \in Devices : school[e] = "revoked" => school'[e] = "revoked"
  BY <1>0, RevokedStays
<1>6. EnrolledIsAccountedFor'
  BY <1>2, <1>3 DEF PairingInv, EnrolledIsAccountedFor, InHand
<1>7. KeyringBacksConfig'
  BY <1>2, <1>4, <1>5 DEF PairingInv, KeyringBacksConfig, InHand
<1>8. ASSUME NEW t \in Terminals PROVE AloneInv(t)'
  <2>1. device[t] \in Devices \cup {None} /\ AloneInv(t)
    BY <1>0 DEF TypeOK, PairingInv
  <2> QED
    BY <1>1, <1>2, <1>4, <2>1 DEF AloneInv, Deleting, LoadMaySucceed
<1> QED
  BY <1>6, <1>7, <1>8 DEF PairingInv

LEMMA StepPairingInv ==
  PairingInv /\ OneAtATime /\ OneAtATime' /\ [Next]_vars => PairingInv'
<1> SUFFICES ASSUME PairingInv, OneAtATime, OneAtATime', [Next]_vars PROVE PairingInv'
  OBVIOUS
<1>1. RevokedInv'
  BY StepRevokedInv DEF PairingInv
<1>2. CASE UNCHANGED vars
  BY <1>1, <1>2 DEF vars, commandVars, historyVars, PairingInv, AloneInv, Deleting, LoadMaySucceed,
     GivenUp, EnrolledIsAccountedFor, KeyringBacksConfig, InHand
<1> QED
  BY <1>1, <1>2, CommandPairingInv, AdminPairingInv DEF Next

\* The invariant of commands that do not overlap, for any number of terminals
\* and devices.
THEOREM PairingInductive == Spec /\ []OneAtATime => []PairingInv
<1>1. Init => PairingInv
  <2>1. Init => RevokedInv
    BY InitTypeOK DEF RevokedInv, UnpairInv, Deleting, Init
  <2> QED
    BY <2>1 DEF Init, PairingInv, AloneInv, Deleting, EnrolledIsAccountedFor, KeyringBacksConfig
<1> QED
  BY <1>1, StepPairingInv, PTL DEF Spec

\* A user with a single terminal cannot do otherwise.
LEMMA SingleTerminal ==
  ASSUME \A t, u \in Terminals : t = u
  PROVE  Spec => []OneAtATime
<1>1. OneAtATime
  BY DEF OneAtATime
<1> QED
  BY <1>1, PTL

\* While commands do not overlap, every enrolled device is in a command's hands,
\* or paired, or recorded: as excused by a kill, a lost answer to its enrolment or
\* --local-only, or as dropped by pair at one of the two steps that let go of a
\* device unrevoked.  No other step of pair, unpair, Save or Delete loses one,
\* whatever fails or is killed.
THEOREM NothingElseOrphaned == Spec /\ []OneAtATime => []EnrolledIsAccountedFor
  BY PairingInductive, PTL DEF PairingInv

\* While commands do not overlap, config.json and the keyring agree: Save and
\* Delete change the two in an order that no failure or kill between them spoils.
THEOREM KeyringInStep == Spec /\ []OneAtATime => []KeyringBacksConfig
  BY PairingInductive, PTL DEF PairingInv

=============================================================================
