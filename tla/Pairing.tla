------------------------------ MODULE Pairing ------------------------------
(***************************************************************************)
(* The life of a pairing: the commands `pair` and `unpair` of the          *)
(* companion, the two local places a device credential is kept in          *)
(* (config.json and the Secret Service keyring) and the school that knows  *)
(* the device.                                                             *)
(*                                                                         *)
(* A terminal runs one command after another; with several terminals the   *)
(* commands interleave, since nothing locks the configuration directory.   *)
(* A command is a process: it may be killed at any point.  Calls to the    *)
(* school and to secret-tool may fail, with or without having had their    *)
(* effect.  A credential is known by the device it belongs to.             *)
(***************************************************************************)
EXTENDS FiniteSets

CONSTANTS
    Terminals,  \* where commands are typed, one at a time in each
    Devices,    \* bound: the devices the school may enrol
    None        \* stands for "no device" and "no config.json"

Stores == {"auto", "keyring", "file"}
Places == {"keyring", "file"}
Configs == [device : Devices, place : Places]

ASSUME PairingAssumption == None \notin Devices \cup Configs

VARIABLES
    at,       \* control point of the command in each terminal
    command,  \* the command each terminal runs, or ran last
    store,    \* the value of pair's --credential-store flag
    device,   \* the device whose token the command holds
    place,    \* where Save has decided to keep that token
    victim,   \* the device whose keyring entry Delete is about to clear
    report,   \* how the last command of each terminal ended
    config,   \* contents of config.json
    keyring,  \* the devices with a token in the Secret Service
    school,   \* what the school knows of each device
    excused,  \* history: the devices whose revocation was out of the commands'
              \* hands: pair was killed, or the answer to its enrolment got lost,
              \* or the user took it upon himself with --local-only
    dropped   \* history: the devices that pair gave up with their token in hand,
              \* without having heard that they are revoked

commandVars == <<at, command, store, device, place, victim, report>>
historyVars == <<excused, dropped>>
vars == <<commandVars, config, keyring, school, historyVars>>

\* pair: enroll, enrolling, keep, write, undo, giveup;
\* unpair: revoke, delete, clear, remove, removeStatus.
ControlPoints == {"idle", "enroll", "enrolling", "keep", "write", "undo", "giveup",
                  "revoke", "delete", "clear", "remove", "removeStatus"}

\* The type invariant.  A command holds a device exactly at the points where
\* the code has its token in a variable.
TypeOK ==
    /\ at \in [Terminals -> ControlPoints]
    /\ command \in [Terminals -> {"none", "pair", "unpair", "unpair_local"}]
    /\ store \in [Terminals -> Stores]
    /\ device \in [Terminals -> Devices \cup {None}]
    /\ place \in [Terminals -> Places \cup {"none"}]
    /\ victim \in [Terminals -> Devices \cup {None}]
    /\ report \in [Terminals -> {"none", "paired", "removed", "cleaned", "error", "killed"}]
    /\ config \in Configs \cup {None}
    /\ keyring \subseteq Devices
    /\ school \in [Devices -> {"unknown", "enrolled", "revoked"}]
    /\ excused \subseteq Devices
    /\ dropped \subseteq Devices
    /\ \A t \in Terminals :
          /\ at[t] \in {"enrolling", "keep", "write", "undo", "giveup", "revoke"} => device[t] # None
          /\ at[t] \in {"write", "undo"} => place[t] # "none"
          /\ at[t] = "clear" => victim[t] # None

Init ==
    /\ at = [t \in Terminals |-> "idle"]
    /\ command = [t \in Terminals |-> "none"]
    /\ store = [t \in Terminals |-> "auto"]
    /\ device = [t \in Terminals |-> None]
    /\ place = [t \in Terminals |-> "none"]
    /\ victim = [t \in Terminals |-> None]
    /\ report = [t \in Terminals |-> "none"]
    /\ config = None
    /\ keyring = {}
    /\ school = [d \in Devices |-> "unknown"]
    /\ excused = {}
    /\ dropped = {}

-----------------------------------------------------------------------------
(***************************************************************************)
(* What the commands share                                                 *)
(***************************************************************************)

\* Terminal t goes on to control point p; its other variables stay.
Goto(t, p) ==
    /\ at' = [at EXCEPT ![t] = p]
    /\ UNCHANGED <<command, store, report>>

\* The command of terminal t ends with the message or exit status w.  Its
\* variables are gone; device stays as history.
Finish(t, w) ==
    /\ at' = [at EXCEPT ![t] = "idle"]
    /\ report' = [report EXCEPT ![t] = w]
    /\ store' = [store EXCEPT ![t] = "auto"]
    /\ place' = [place EXCEPT ![t] = "none"]
    /\ victim' = [victim EXCEPT ![t] = None]
    /\ UNCHANGED command

\* A command starts in terminal t with d as the device it has loaded, if any.
\* One that goes no further has failed.
Begin(t, c, p, d) ==
    /\ at[t] = "idle"
    /\ at' = [at EXCEPT ![t] = p]
    /\ command' = [command EXCEPT ![t] = c]
    /\ device' = [device EXCEPT ![t] = d]
    /\ place' = [place EXCEPT ![t] = "none"]
    /\ victim' = [victim EXCEPT ![t] = None]
    /\ report' = [report EXCEPT ![t] = IF p = "idle" THEN "error" ELSE "none"]

\* Store.Load finds a pairing and its token.  The lookup in the keyring may
\* also fail by itself (LoadMayFail): locked, or not there in ten seconds.
LoadMaySucceed == config # None /\ (config.place = "keyring" => config.device \in keyring)
LoadMayFail == config # None => config.place = "keyring"

\* The outcomes of a DELETE request to the school for device d.  A device that
\* is not enrolled any more is not found; an answer may get lost.
SchoolAnswers(d) ==
    IF school[d] = "enrolled" THEN {"revoked", "lost", "unreachable"}
                              ELSE {"notFound", "lost", "unreachable"}

\* Mutant: a client that looks at no status and no error.
AcceptedAlways == {"revoked", "notFound", "lost", "unreachable"}

\* Mutant: a device that is not found is an error.
AcceptedFoundOnly == {"revoked"}

\* The answers Client.Revoke takes for success: 200, 204 and 404.
Accepted == {"revoked", "notFound"}

\* The school's side of that request.
SchoolRevokes(d, answer) ==
    school' = IF answer = "unreachable" THEN school
              ELSE [school EXCEPT ![d] = "revoked"]

\* The keyring's side of `secret-tool clear`, which may fail, and may be killed
\* after ten seconds with its work done.
KeyringClears(d) == keyring' \in {keyring, keyring \ {d}}

-----------------------------------------------------------------------------
(***************************************************************************)
(* pair                                                                    *)
(***************************************************************************)

\* Store.Exists finds no config.json, and the flags are in order.
BeginPair(t) ==
    /\ config = None
    /\ Begin(t, "pair", "enroll", None)
    /\ \E s \in Stores : store' = [store EXCEPT ![t] = s]
    /\ UNCHANGED <<config, keyring, school, historyVars>>

\* There is a config.json: "this companion is already paired".
RefusePair(t) ==
    /\ config # None
    /\ at[t] = "idle"
    /\ Begin(t, "pair", "idle", None)
    /\ UNCHANGED <<store, config, keyring, school, historyVars>>

\* The enrolment request fails on this side of the school: invalid arguments,
\* no connection, or a code the school refuses.
EnrollFails(t) ==
    /\ at[t] = "enroll"
    /\ Finish(t, "error")
    /\ UNCHANGED <<device, config, keyring, school, historyVars>>

\* The school takes the pairing code and enrols a new device.
SchoolEnrolls(t) ==
    /\ at[t] = "enroll"
    /\ \E d \in Devices :
          /\ school[d] = "unknown"
          /\ school' = [school EXCEPT ![d] = "enrolled"]
          /\ device' = [device EXCEPT ![t] = d]
    /\ Goto(t, "enrolling")
    /\ UNCHANGED <<place, victim, config, keyring, historyVars>>

\* Its response arrives and is valid.
EnrollReturns(t) ==
    /\ at[t] = "enrolling"
    /\ Goto(t, "keep")
    /\ UNCHANGED <<device, place, victim, config, keyring, school, historyVars>>

\* The response gets lost, or is too long, or has a status Enroll does not take
\* for success: no token comes through.
EnrollLost(t) ==
    /\ at[t] = "enrolling"
    /\ excused' = excused \cup {device[t]}
    /\ Finish(t, "error")
    /\ UNCHANGED <<device, config, keyring, school, dropped>>

\* Enroll reads the response and rejects what is in it, the WebSocket URL for
\* one; pair returns without a look at the token in it.
EnrollRejects(t) ==
    /\ at[t] = "enrolling"
    /\ dropped' = dropped \cup {device[t]}
    /\ Finish(t, "error")
    /\ UNCHANGED <<device, config, keyring, school, excused>>

\* Save puts the token in the keyring and remembers it for config.json.
KeepInKeyring(t) ==
    /\ at[t] = "keep"
    /\ store[t] # "file"
    /\ keyring' = keyring \cup {device[t]}
    /\ place' = [place EXCEPT ![t] = "keyring"]
    /\ Goto(t, "write")
    /\ UNCHANGED <<device, victim, config, school, historyVars>>

\* Mutant: secret-tool fails, and Save does not notice.
KeyringRefusesUnnoticed(t) ==
    /\ at[t] = "keep"
    /\ store[t] # "file"
    /\ keyring' \in {keyring, keyring \cup {device[t]}}
    /\ place' = [place EXCEPT ![t] = "keyring"]
    /\ Goto(t, "write")
    /\ UNCHANGED <<device, victim, config, school, historyVars>>

\* secret-tool fails, perhaps after it has stored the token: the token will go
\* into config.json, unless the user asked for the keyring.
KeyringRefuses(t) ==
    /\ at[t] = "keep"
    /\ store[t] # "file"
    /\ keyring' \in {keyring, keyring \cup {device[t]}}
    /\ IF store[t] = "keyring"
       THEN /\ Goto(t, "giveup")
            /\ UNCHANGED place
       ELSE /\ place' = [place EXCEPT ![t] = "file"]
            /\ Goto(t, "write")
    /\ UNCHANGED <<device, victim, config, school, historyVars>>

\* With --credential-store file the store has no keyring.
KeepInFile(t) ==
    /\ at[t] = "keep"
    /\ store[t] = "file"
    /\ place' = [place EXCEPT ![t] = "file"]
    /\ Goto(t, "write")
    /\ UNCHANGED <<device, victim, config, keyring, school, historyVars>>

\* atomicWrite renames the new config.json into place, whatever is there.
WriteConfig(t) ==
    /\ at[t] = "write"
    /\ config' = [device |-> device[t], place |-> place[t]]
    /\ Finish(t, "paired")
    /\ UNCHANGED <<device, keyring, school, historyVars>>

\* atomicWrite fails: before the rename, or in the chmod that follows it.
WriteFails(t) ==
    /\ at[t] = "write"
    /\ config' \in {config, [device |-> device[t], place |-> place[t]]}
    /\ Goto(t, IF place[t] = "keyring" THEN "undo" ELSE "giveup")
    /\ UNCHANGED <<device, place, victim, keyring, school, historyVars>>

\* Save clears the keyring entry again and ignores whether that worked.
UndoKeyring(t) ==
    /\ at[t] = "undo"
    /\ KeyringClears(device[t])
    /\ Goto(t, "giveup")
    /\ UNCHANGED <<device, place, victim, config, school, historyVars>>

\* Mutant: pair fails and leaves the device it could not save enrolled.
GiveUpSilently(t) ==
    /\ at[t] = "giveup"
    /\ Finish(t, "error")
    /\ UNCHANGED <<device, config, keyring, school, historyVars>>

\* pair revokes the device it could not save and ignores whether that worked.
GiveUp(t) ==
    /\ at[t] = "giveup"
    /\ \E answer \in SchoolAnswers(device[t]) :
          /\ SchoolRevokes(device[t], answer)
          /\ dropped' = IF answer \in Accepted THEN dropped ELSE dropped \cup {device[t]}
    /\ Finish(t, "error")
    /\ UNCHANGED <<device, config, keyring, excused>>

-----------------------------------------------------------------------------
(***************************************************************************)
(* unpair                                                                  *)
(***************************************************************************)

\* With --local-only it is the user who revokes the device of config.json.
LeftToUser == IF config = None THEN excused ELSE excused \cup {config.device}

\* unpair loads the pairing; with --local-only it goes on without the school.
BeginUnpair(t) ==
    /\ LoadMaySucceed
    /\ \/ /\ Begin(t, "unpair", "revoke", config.device)
          /\ UNCHANGED excused
       \/ /\ Begin(t, "unpair_local", "delete", config.device)
          /\ excused' = LeftToUser
    /\ UNCHANGED <<store, config, keyring, school, dropped>>

\* The pairing cannot be loaded: plain unpair fails, --local-only deletes
\* what is there.
BeginUnpairBlind(t) ==
    /\ LoadMayFail
    /\ \/ /\ Begin(t, "unpair", "idle", None)
          /\ UNCHANGED excused
       \/ /\ Begin(t, "unpair_local", "delete", None)
          /\ excused' = LeftToUser
    /\ UNCHANGED <<store, config, keyring, school, dropped>>

\* unpair hears from the school about its request for the device, or does not,
\* and goes on only with an answer that means success.
HearsFromSchool(t, answer) ==
    /\ SchoolRevokes(device[t], answer)
    /\ IF answer \in Accepted
       THEN Goto(t, "delete") /\ UNCHANGED <<place, victim>>
       ELSE Finish(t, "error")
    /\ UNCHANGED <<device, config, keyring, historyVars>>

\* unpair revokes the device at the school.
RevokeDevice(t) ==
    /\ at[t] = "revoke"
    /\ \E answer \in SchoolAnswers(device[t]) : HearsFromSchool(t, answer)

\* Store.Delete loads the pairing again, for the device to clear in the keyring.
\* Without one, or without its token, it goes on to the files.
DeleteLoads(t) ==
    /\ at[t] = "delete"
    /\ \/ /\ LoadMaySucceed
          /\ config.place = "keyring"
          /\ victim' = [victim EXCEPT ![t] = config.device]
          /\ Goto(t, "clear")
       \/ /\ Goto(t, "remove")
          /\ UNCHANGED victim
    /\ UNCHANGED <<device, place, config, keyring, school, historyVars>>

\* It clears the entry and ignores whether that worked.
ClearKeyring(t) ==
    /\ at[t] = "clear"
    /\ KeyringClears(victim[t])
    /\ Goto(t, "remove")
    /\ UNCHANGED <<device, place, victim, config, school, historyVars>>

\* It removes config.json, if there is one.
RemoveConfig(t) ==
    /\ at[t] = "remove"
    /\ config' = None
    /\ Goto(t, "removeStatus")
    /\ UNCHANGED <<device, place, victim, keyring, school, historyVars>>

\* config.json cannot be removed.
RemoveFails(t) ==
    /\ at[t] = "remove"
    /\ config # None
    /\ Finish(t, "error")
    /\ UNCHANGED <<device, config, keyring, school, historyVars>>

\* It removes status.json, and unpair prints its message; or that fails.
RemoveStatus(t) ==
    /\ at[t] = "removeStatus"
    /\ \/ Finish(t, IF device[t] = None THEN "cleaned" ELSE "removed")
       \/ Finish(t, "error")
    /\ UNCHANGED <<device, config, keyring, school, historyVars>>

-----------------------------------------------------------------------------
(***************************************************************************)
(* The environment, and the specification                                  *)
(***************************************************************************)

\* Where pair has enrolled a device that no config.json speaks of yet.
Enrolled == {"enrolling", "keep", "write", "undo", "giveup"}

\* The process is killed, by the user or with the machine.
Kill(t) ==
    /\ at[t] # "idle"
    /\ excused' = IF at[t] \in Enrolled THEN excused \cup {device[t]} ELSE excused
    /\ Finish(t, "killed")
    /\ UNCHANGED <<device, config, keyring, school, dropped>>

\* An administrator revokes a device in the panel of the school.
AdminRevokes(d) ==
    /\ school[d] = "enrolled"
    /\ school' = [school EXCEPT ![d] = "revoked"]
    /\ UNCHANGED <<commandVars, config, keyring, historyVars>>

Pair(t) ==
    \/ BeginPair(t) \/ RefusePair(t)
    \/ EnrollFails(t) \/ SchoolEnrolls(t) \/ EnrollReturns(t)
    \/ EnrollLost(t) \/ EnrollRejects(t)
    \/ KeepInKeyring(t) \/ KeyringRefuses(t) \/ KeepInFile(t)
    \/ WriteConfig(t) \/ WriteFails(t) \/ UndoKeyring(t) \/ GiveUp(t)

Unpair(t) ==
    \/ BeginUnpair(t) \/ BeginUnpairBlind(t) \/ RevokeDevice(t)
    \/ DeleteLoads(t) \/ ClearKeyring(t)
    \/ RemoveConfig(t) \/ RemoveFails(t) \/ RemoveStatus(t)

Next ==
    \/ \E t \in Terminals : Pair(t) \/ Unpair(t) \/ Kill(t)
    \/ \E d \in Devices : AdminRevokes(d)

Spec == Init /\ [][Next]_vars

\* Every call of a command has a timeout (20 s at the school, 10 s in
\* secret-tool), so it goes on until it ends.
CommandsEnd == \A t \in Terminals : WF_vars(at[t] # "idle" /\ (Pair(t) \/ Unpair(t)))

\* The school's answer reaches unpair.
SchoolHeard(t) ==
    /\ at[t] = "revoke"
    /\ \E answer \in SchoolAnswers(device[t]) \ {"lost", "unreachable"} :
          HearsFromSchool(t, answer)

\* A user keeps trying plain unpair, which can read the keyring and hears from
\* the school every so often, though perhaps after many answers that got lost.
\* Where there is no pairing to load, it is unpair --local-only that he tries.
\* There is an end to the kills and to the failures to remove config.json.
RetriesUnpair(t) ==
    /\ SF_vars(BeginUnpair(t) /\ command'[t] = "unpair")
    /\ SF_vars(SchoolHeard(t))
    /\ SF_vars(~LoadMaySucceed /\ BeginUnpairBlind(t) /\ command'[t] = "unpair_local")
    /\ <>[][~Kill(t) /\ ~RemoveFails(t)]_vars

-----------------------------------------------------------------------------
(***************************************************************************)
(* Properties                                                              *)
(***************************************************************************)

\* A terminal has a command under way that handles device d.
InHand(d) == \E t \in Terminals : at[t] # "idle" /\ device[t] = d

\* Every device that is enrolled is accounted for: a command is handling it, it
\* is the paired one, its revocation was out of the commands' hands (excused),
\* or pair itself let go of it (dropped).  Only two steps of pair do the last,
\* both with the device's token at hand: it returns from a response that
\* Enroll has rejected without revoking the device in it, and it ignores that the
\* revocation after a failed Save has failed.  It does not tell the user that such
\* a device has to be revoked in the panel of the school.  Every other path,
\* unpair and each failure of Save and Delete included, loses none.
EnrolledIsAccountedFor ==
    \A d \in Devices :
        school[d] = "enrolled" =>
            \/ InHand(d)
            \/ config # None /\ config.device = d
            \/ d \in excused \cup dropped

\* A config.json that refers to the keyring has its token there, until the
\* device is revoked or given up; Save and Delete keep the two in this order
\* through every failure between them.
KeyringBacksConfig ==
    config # None /\ config.place = "keyring" /\ config.device \notin keyring
        => \/ school[config.device] = "revoked"
           \/ config.device \in excused \cup dropped
           \/ InHand(config.device)

\* When unpair without --local-only says that the credentials are removed, the
\* school has revoked the device it loaded, even if that took several attempts
\* with lost answers between them.
RemovedMeansRevoked ==
    \A t \in Terminals :
        report[t] = "removed" /\ command[t] = "unpair" => school[device[t]] = "revoked"

\* A pairing is replaced by another one only through unpair: pair refuses with
\* "this companion is already paired; unpair it before creating a new pairing".
NoPairingOverPairing ==
    [][config # None => config' = None \/ config'.device = config.device]_vars

\* After "Local companion credentials removed." no local credential of the
\* device is left.
CredentialsRemoved ==
    \A t \in Terminals : report[t] = "removed" => device[t] \notin keyring
=============================================================================
