------------------------------ MODULE AuthStore ------------------------------
(***************************************************************************)
(* The two tables the device and the recovery doors share, and the SQL     *)
(* statements AuthStore sends to them (device_impl.go, challenge_impl.go,  *)
(* models/auth.go).  A statement is one operator over the whole table: it  *)
(* is what the database executes atomically.  Nothing here is an action;   *)
(* AuthDoors says which handler sends which statement, and when.           *)
(***************************************************************************)
EXTENDS Integers

CONSTANTS
    Devices,       \* device ids
    Members,       \* subject ids
    Challenges,    \* challenge ids, each handed out by a sequence once
    None,          \* the empty string in an id column
    ChallengeTTL,  \* CreateChallenge's five minutes, in ticks
    MaxTime        \* bound on the clock

ASSUME NoneIsNoId == None \notin Devices \cup Members \cup Challenges
ASSUME TTLAssumption == ChallengeTTL \in Nat
ASSUME MaxTimeAssumption == MaxTime \in Nat

VARIABLES
    now,        \* the wall clock
    device,     \* the device table
    challenge   \* the challenge table

storeVars == <<now, device, challenge>>

-----------------------------------------------------------------------------
(* Rows.  A column that holds '' for "unset" holds 0 for a date and "" for *)
(* a reason, a boolean column 0 or 1; an id with no row maps to the row of *)
(* empty columns.                                                          *)

Reasons == {"self", "recovery"}

Device == [subject : Members \cup {None},
           signedOutAt : Nat,
           signedOutBy : Reasons \cup {""}]

NoDevice == [subject |-> None, signedOutAt |-> 0, signedOutBy |-> ""]

HasDevice(d)   == device[d].subject # None
IsSignedOut(d) == device[d].signedOutAt # 0

\* Mutant: the door looks the device up and forgets to ask if it signed out.
KnownDeviceMayAuthenticate(d) == HasDevice(d)

\* What GetDevice and the check after it let through at both device doors.
MayAuthenticate(d) == HasDevice(d) /\ ~IsSignedOut(d)

Challenge == [kind : {"", "phone", "device", "recovery"},
              device : Devices \cup {None},
              subject : Members \cup {None},
              expiresAt : Nat,
              consumed : {0, 1}]

NoChallenge == [kind |-> "", device |-> None, subject |-> None,
                expiresAt |-> 0, consumed |-> 0]

HasChallenge(c) == challenge[c].kind # ""
IsConsumed(c)   == challenge[c].consumed = 1

StoreTypeOK ==
    /\ now \in Nat
    /\ device \in [Devices -> Device]
    /\ challenge \in [Challenges -> Challenge]

StoreInit ==
    /\ now = 1
    /\ device = [d \in Devices |-> NoDevice]
    /\ challenge = [c \in Challenges |-> NoChallenge]

-----------------------------------------------------------------------------
(* The statements on the device table.                                     *)

\* INSERT of RegisterDevice: a new id, a live row.
InsertDevice(d, m) ==
    /\ ~HasDevice(d)
    /\ device' = [device EXCEPT ![d].subject = m]

\* Mutants of the UPDATE below: the retired reason value is written; the
\* reason is not written at all; its COALESCE is missing.
SignOutRowAsMember(row, at, by) ==
    [row EXCEPT !.signedOutAt = IF @ = 0 THEN at ELSE @,
                !.signedOutBy = IF @ = "" THEN "member" ELSE @]
SignOutRowDateOnly(row, at, by) ==
    [row EXCEPT !.signedOutAt = IF @ = 0 THEN at ELSE @]
SignOutRowLastReason(row, at, by) ==
    [row EXCEPT !.signedOutAt = IF @ = 0 THEN at ELSE @, !.signedOutBy = by]

\* UPDATE of SignOutDevice: COALESCE(NULLIF(column, ''), ?) on each of the
\* two columns, so a column already written keeps what it holds.
SignOutRow(row, at, by) ==
    [row EXCEPT !.signedOutAt = IF @ = 0 THEN at ELSE @,
                !.signedOutBy = IF @ = "" THEN by ELSE @]

\* SELECT of SignOutOtherDevices: the member's devices with no date, keepID
\* left out when it is given.
LiveDevices(m, keep) ==
    {d \in Devices : device[d].subject = m /\ ~IsSignedOut(d) /\ d # keep}

\* UPDATE of SignOutOtherDevices: by id alone, whatever the rows hold now.
SweepRows(ids, at) ==
    device' = [d \in Devices |->
                 IF d \in ids
                 THEN [device[d] EXCEPT !.signedOutAt = at,
                                        !.signedOutBy = "recovery"]
                 ELSE device[d]]

-----------------------------------------------------------------------------
(* The statements on the challenge table.                                  *)

\* INSERT of CreateChallenge.  The clock is read before the statement runs.
InsertChallenge(c, kind, d, m, at) ==
    /\ ~HasChallenge(c)
    /\ challenge' = [challenge EXCEPT ![c] =
                       [kind |-> kind, device |-> d, subject |-> m,
                        expiresAt |-> at + ChallengeTTL, consumed |-> 0]]

\* Mutant: the expiry is not looked at.
ConsumableForever(row, at) == row.kind # "" /\ row.consumed = 0

\* What ConsumeChallenge asks of the row it has read, against the caller's
\* reading of the clock.
Consumable(row, at) == row.kind # "" /\ row.consumed = 0 /\ at < row.expiresAt

\* Mutants: the UPDATE goes by id alone; the UPDATE is lost.
UpdatesAnyChallenge(c) == HasChallenge(c)
MarkNothing(c) == challenge' = challenge

\* UPDATE of ConsumeChallenge: only where consumed is still false.
UpdatesConsumed(c) == HasChallenge(c) /\ ~IsConsumed(c)
MarkConsumed(c) == challenge' = [challenge EXCEPT ![c].consumed = 1]

=============================================================================
