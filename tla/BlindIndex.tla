------------------------------ MODULE BlindIndex ------------------------------
(***************************************************************************)
(* The blind index (blindindex.go) in front of the register of salts: a    *)
(* number is read in a region, stated by the caller or the organization's  *)
(* default, put into canonical form and handed to Hash.  The default is    *)
(* the organization's to change, at any moment.                            *)
(*                                                                         *)
(* A number is its region's and its local digits.  Written nationally it   *)
(* leaves the region out, and is another number in every region.           *)
(***************************************************************************)
EXTENDS PhoneSalt

CONSTANTS
    Regions,
    Misspelt,  \* a region code in lower case
    Locals,    \* local digits
    Issued     \* the numbers valid in their region

Numbers == [region : Regions, local : Locals]

ASSUME RegionAssumption ==
    /\ None \notin Regions /\ Misspelt \notin Regions \cup {None}
    /\ Issued \subseteq Numbers

VARIABLES
    setting,  \* the organization's default dialling region, if any
    entry,    \* the number each worker is indexing, up to Hash and under it
    meant     \* history: what that number could be read as

index == <<setting, entry, meant>>

-----------------------------------------------------------------------------
Codes == Regions \cup {Misspelt, None}

\* How a number may be written.
Written == [region : Regions \cup {None}, local : Locals]

Entry == [at : {"none", "region", "hash"}, phone : Written \cup {None}]

NoEntry == [at |-> "none", phone |-> None]

IndexInit ==
    /\ Init
    /\ setting = None
    /\ entry = [w \in Workers |-> NoEntry]
    /\ meant = [w \in Workers |-> {}]

-----------------------------------------------------------------------------
EntryAt(w, at) == entry[w].at = at

\* The worker is in no call.
Free(w) == At(w, "idle") /\ EntryAt(w, "none")

\* The call returns, and its local variables with it.
Return(w) ==
    /\ entry' = [entry EXCEPT ![w] = NoEntry]
    /\ meant' = [meant EXCEPT ![w] = {}]

-----------------------------------------------------------------------------
(* Canonicalize.                                                           *)

\* The international form says its region, the national one is given it.
E164(phone, region) ==
    IF phone.region = None THEN [phone EXCEPT !.region = region] ELSE phone

\* Even a number that needs no region is refused without a proper one.
Parses(phone, region) == region \in Regions /\ E164(phone, region) \in Issued

\* What a number says in those of the regions that are one.
Readings(phone, regions) == {E164(phone, r) : r \in regions \cap Regions}

-----------------------------------------------------------------------------
(* The Indexer.                                                            *)

\* The number parses; its canonical form, and nothing else, crosses to Hash.
IndexInRegion(w, phone, region) ==
    /\ Parses(phone, region)
    /\ entry' = [entry EXCEPT ![w] = [at |-> "hash", phone |-> E164(phone, region)]]
    /\ CallIndex(w)

\* Mutant: with no region stated, the default is taken.
CallInRegionOrDefault(w) ==
    /\ Free(w)
    /\ \E phone \in Written, region \in Codes :
         /\ IndexInRegion(w, phone, IF region = None THEN setting ELSE region)
         /\ meant' = [meant EXCEPT ![w] = Readings(phone, {region})]
    /\ UNCHANGED setting

\* IndexInRegion, called with a region the caller states.  An empty one is
\* refused, as a number is that does not parse, and leaves no trace.
CallInRegion(w) ==
    /\ Free(w)
    /\ \E phone \in Written, region \in Codes \ {None} :
         /\ IndexInRegion(w, phone, region)
         /\ meant' = [meant EXCEPT ![w] = Readings(phone, {region})]
    /\ UNCHANGED setting

\* Index is called: the default is yet to be read.
CallIndexDefault(w) ==
    /\ Free(w)
    /\ \E phone \in Written :
         /\ entry' = [entry EXCEPT ![w] = [at |-> "region", phone |-> phone]]
         /\ meant' = [meant EXCEPT ![w] = Readings(phone, {setting})]
    /\ UNCHANGED <<vars, setting>>

\* With no default set, the number is refused.
ReadRegion(w) ==
    /\ EntryAt(w, "region")
    /\ \/ /\ setting # None
          /\ IndexInRegion(w, entry[w].phone, setting)
          /\ UNCHANGED meant
       \/ /\ setting = None \/ ~Parses(entry[w].phone, setting)
          /\ Return(w)
          /\ UNCHANGED vars
    /\ UNCHANGED setting

\* The region cannot be read, the caller goes away or the process dies.
AbandonEntry(w) ==
    /\ EntryAt(w, "region")
    /\ Return(w)
    /\ UNCHANGED <<vars, setting>>

\* The organization sets its region; calls yet to read it may find it so.
SetRegion(region) ==
    /\ region # setting
    /\ setting' = region
    /\ meant' = [w \in Workers |->
                   IF EntryAt(w, "region")
                   THEN meant[w] \cup Readings(entry[w].phone, {region})
                   ELSE meant[w]]
    /\ UNCHANGED <<vars, entry>>

\* The register's own steps; Hash's last one, or its end, is the Indexer's.
RegisterStep ==
    \/ \E i \in SaltIds, secret \in Secrets :
         Provision(i, secret) /\ UNCHANGED index
    \/ \E w \in Workers :
         /\ \/ Free(w) /\ CallRetire(w)
            \/ RetireUpdate(w) \/ RetireCount(w) \/ RetireReread(w)
            \/ HashRead(w) \/ HashDigest(w)
            \/ Abandon(w)
         /\ IF req'[w] = Idle THEN Return(w) ELSE UNCHANGED <<entry, meant>>
         /\ UNCHANGED setting

IndexNext ==
    \/ \E w \in Workers :
         \/ CallInRegion(w)
         \/ CallIndexDefault(w) \/ ReadRegion(w)
         \/ AbandonEntry(w)
    \/ \E region \in Regions \cup {Misspelt} : SetRegion(region)
    \/ RegisterStep

IndexSpec == IndexInit /\ [][IndexNext]_<<vars, index>>

-----------------------------------------------------------------------------
\* What is hashed is the number in canonical form, as it reads in the region
\* the caller stated or in one the organization had set during the call.  A
\* number nobody gave a region is not hashed: not on the default where the
\* caller meant to state one, and not on a guess.
HashedAsMeant ==
    \A w \in Workers :
        EntryAt(w, "hash") => entry[w].phone \in meant[w] \cap Issued

=============================================================================
