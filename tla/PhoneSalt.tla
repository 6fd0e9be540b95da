------------------------------ MODULE PhoneSalt ------------------------------
(***************************************************************************)
(* The register of phone salts (phonesalt_impl.go) under the blind index   *)
(* (blindindex.go): operators provision and retire salts while others      *)
(* index numbers.  A worker makes one call after another; each statement   *)
(* is an action.                                                           *)
(*                                                                         *)
(* A digest is the secret it was made with: one number stands for all, as  *)
(* canonical numbers are hashed byte for byte and by nothing else.         *)
(***************************************************************************)
CONSTANTS
    SaltIds, Secrets, Actors, Workers,
    None  \* the empty column and the empty string

ASSUME NoneIsNoValue == None \notin SaltIds \cup Secrets \cup Actors

VARIABLES
    salt,   \* the salt table
    req,    \* each worker's call: where it is and its local variables
    told,   \* what each worker's latest call was answered
    ended,  \* history: the salts retired when that call came in
    absent  \* history: the salts yet to be provisioned when it came in

vars == <<salt, req, told, ended, absent>>

-----------------------------------------------------------------------------
\* A retirement is a date and an actor, together.
Salt == {s \in [secret : Secrets \cup {None}, retired : BOOLEAN,
                retiredBy : Actors \cup {None}] :
            s.retired <=> s.retiredBy # None}

NoSalt == [secret |-> None, retired |-> FALSE, retiredBy |-> None]

Exists(i) == salt[i].secret # None
Live(i)   == Exists(i) /\ ~salt[i].retired

Points == {"idle", "retire", "count", "reread", "hash", "digest"}

Request == [pc : Points,
            id : SaltIds \cup {None},
            actor : Actors \cup {None},
            secret : Secrets \cup {None}]

Idle == [pc |-> "idle", id |-> None, actor |-> None, secret |-> None]

Answer == [kind : {"none", "retired", "already", "missing", "hashed"},
           id : SaltIds \cup {None},
           by : Actors \cup {None},
           secret : Secrets \cup {None}]

NoAnswer == [kind |-> "none", id |-> None, by |-> None, secret |-> None]

TypeOK ==
    /\ salt \in [SaltIds -> Salt]
    /\ req \in [Workers -> Request]
    /\ \A w \in Workers :
          req[w].pc \in {"retire", "count", "reread", "digest"} =>
             req[w].id \in SaltIds
    /\ told \in [Workers -> Answer]
    /\ ended \in [Workers -> SUBSET SaltIds]
    /\ absent \in [Workers -> SUBSET SaltIds]

Init ==
    /\ salt = [i \in SaltIds |-> NoSalt]
    /\ req = [w \in Workers |-> Idle]
    /\ told = [w \in Workers |-> NoAnswer]
    /\ ended = [w \in Workers |-> {}]
    /\ absent = [w \in Workers |-> SaltIds]

-----------------------------------------------------------------------------
At(w, pc) == req[w].pc = pc

Finish(w) == req' = [req EXCEPT ![w] = Idle]

Arrive(w, call) ==
    /\ At(w, "idle")
    /\ req' = [req EXCEPT ![w] = call]
    /\ told' = [told EXCEPT ![w] = NoAnswer]
    /\ ended' = [ended EXCEPT ![w] = {i \in SaltIds : salt[i].retired}]
    /\ absent' = [absent EXCEPT ![w] = {i \in SaltIds : ~Exists(i)}]

-----------------------------------------------------------------------------
(* Provision.                                                              *)

\* Mutant: no unique index beside the primary key.
AdmitsAnyNew(i) == ~Exists(i)

\* The primary key, and the unique index over the live salts.
Admits(i) == ~Exists(i) /\ \A j \in SaltIds : ~Live(j)

\* A refused INSERT leaves nothing, and the caller is told a salt is live.
Provision(i, secret) ==
    /\ Admits(i)
    /\ salt' = [salt EXCEPT ![i].secret = secret]
    /\ UNCHANGED <<req, told, ended, absent>>

-----------------------------------------------------------------------------
(* Retire.                                                                 *)

\* Mutant: a retirement need not name its actor.
CallRetireUnnamed(w) ==
    /\ \E i \in SaltIds, a \in Actors \cup {None} :
         Arrive(w, [Idle EXCEPT !.pc = "retire", !.id = i, !.actor = a])
    /\ UNCHANGED salt

\* An empty actor is refused before anything is read or written.
CallRetire(w) ==
    /\ \E i \in SaltIds, a \in Actors :
         Arrive(w, [Idle EXCEPT !.pc = "retire", !.id = i, !.actor = a])
    /\ UNCHANGED salt

\* Mutant: the UPDATE goes by the id alone.
RetiresAnew(i) == Exists(i)

\* The rows the UPDATE matches: that id, where no date is set.
Retires(i) == Live(i)

RetireUpdate(w) ==
    /\ At(w, "retire")
    /\ \/ /\ Retires(req[w].id)
          /\ salt' = [salt EXCEPT ![req[w].id].retired = TRUE,
                                  ![req[w].id].retiredBy = req[w].actor]
          /\ req' = [req EXCEPT ![w].pc = "reread"]
       \/ /\ ~Retires(req[w].id)
          /\ req' = [req EXCEPT ![w].pc = "count"]
          /\ UNCHANGED salt
    /\ UNCHANGED <<told, ended, absent>>

\* Mutant: whatever the UPDATE does not match is taken for missing.
CountsLive(i) == Live(i)

\* The rows the COUNT finds: that id, whatever its date.
Counts(i) == Exists(i)

\* Where no row matched, a COUNT tells a retired salt from a missing one.
RetireCount(w) ==
    /\ At(w, "count")
    /\ told' = [told EXCEPT ![w] = [NoAnswer EXCEPT
                  !.kind = IF Counts(req[w].id) THEN "already" ELSE "missing",
                  !.id = req[w].id]]
    /\ Finish(w)
    /\ UNCHANGED <<salt, ended, absent>>

RetireReread(w) ==
    /\ At(w, "reread")
    /\ told' = [told EXCEPT ![w] = [NoAnswer EXCEPT
                  !.kind = "retired", !.id = req[w].id,
                  !.by = salt[req[w].id].retiredBy]]
    /\ Finish(w)
    /\ UNCHANGED <<salt, ended, absent>>

-----------------------------------------------------------------------------
(* IndexInRegion and Hash.                                                 *)

CallIndex(w) ==
    /\ Arrive(w, [Idle EXCEPT !.pc = "hash"])
    /\ UNCHANGED salt

\* Mutant: liveRecord takes any row.
AnyRecord(i) == Exists(i)

\* The rows liveRecord may take.
LiveRecord(i) == Live(i)

\* The record is taken whole, key and id; with none, the number is refused.
HashRead(w) ==
    /\ At(w, "hash")
    /\ \/ \E i \in SaltIds :
            /\ LiveRecord(i)
            /\ req' = [req EXCEPT ![w].pc = "digest", ![w].id = i,
                                  ![w].secret = salt[i].secret]
       \/ /\ \A i \in SaltIds : ~LiveRecord(i)
          /\ Finish(w)
    /\ UNCHANGED <<salt, told, ended, absent>>

\* Mutant: the id is asked for anew, of Live.
HashAsksAgain(w) ==
    /\ At(w, "digest")
    /\ \E i \in SaltIds :
         /\ Live(i)
         /\ told' = [told EXCEPT ![w] = [NoAnswer EXCEPT
                       !.kind = "hashed", !.id = i, !.secret = req[w].secret]]
    /\ Finish(w)
    /\ UNCHANGED <<salt, ended, absent>>

\* The digest goes back with the id of the record its key came from.
HashDigest(w) ==
    /\ At(w, "digest")
    /\ told' = [told EXCEPT ![w] = [NoAnswer EXCEPT
                  !.kind = "hashed", !.id = req[w].id,
                  !.secret = req[w].secret]]
    /\ Finish(w)
    /\ UNCHANGED <<salt, ended, absent>>

-----------------------------------------------------------------------------
\* A statement fails, a number does not parse, the caller goes away or the
\* process dies.
Abandon(w) ==
    /\ ~At(w, "idle")
    /\ Finish(w)
    /\ UNCHANGED <<salt, told, ended, absent>>

Next ==
    \/ \E i \in SaltIds, secret \in Secrets : Provision(i, secret)
    \/ \E w \in Workers :
         \/ CallRetire(w)
         \/ RetireUpdate(w) \/ RetireCount(w) \/ RetireReread(w)
         \/ CallIndex(w) \/ HashRead(w) \/ HashDigest(w)
         \/ Abandon(w)

Spec == Init /\ [][Next]_vars

-----------------------------------------------------------------------------
(* What the register promises.                                             *)

\* Whoever provisions and retires beside whom, there is one live salt at most,
\* none comes back and none changes its key: the register implements
\* SaltEpochs.
Epochs == INSTANCE SaltEpochs WITH
    Keys <- Secrets,
    serving <- {i \in SaltIds : Live(i)},
    ended <- {i \in SaltIds : salt[i].retired},
    key <- [i \in SaltIds |-> salt[i].secret]

EpochSpec == Epochs!Spec

\* A digest is stored with the id of the salt it was made under, whatever was
\* retired and provisioned since the live record was read: the row of that id
\* still has its key, so digests of one id compare and those of two are known
\* apart.
DigestNamesItsSalt ==
    \A w \in Workers : told[w].kind = "hashed" =>
        salt[told[w].id].secret = told[w].secret

\* A digest may come from a salt that is retired by now, but not from one that
\* was retired when the call came in: a rotation that has ended orphans no
\* later digest.
LateHashUsesLive ==
    \A w \in Workers : told[w].kind = "hashed" => told[w].id \notin ended[w]

\* A refused retirement is told why truly: "already retired" of a salt that is,
\* "not found" of one that was not there, except that either may be said of a
\* salt provisioned under the call.
RefusalIsTrue ==
    \A w \in Workers :
        /\ told[w].kind = "already" =>
              salt[told[w].id].retired \/ told[w].id \in absent[w]
        /\ told[w].kind = "missing" => told[w].id \in absent[w]

\* Of operators who retire one salt at once, the one told it is retired is the
\* one its row names, for good.
RetirerIsNamed ==
    \A w \in Workers :
        /\ At(w, "reread") => salt[req[w].id].retiredBy = req[w].actor
        /\ told[w].kind = "retired" => salt[told[w].id].retiredBy = told[w].by

=============================================================================
