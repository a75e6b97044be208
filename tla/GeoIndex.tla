------------------------------ MODULE GeoIndex ------------------------------
(***************************************************************************)
(* Nearby shops: geo-rebuild copies the positions of each category from    *)
(* MySQL into a Redis GEO index next to a :ready marker, and a query reads *)
(* the index first and the MySQL rows of what it found afterwards.         *)
(*                                                                         *)
(* Granularity: one action per MySQL statement and per Redis transaction   *)
(* or script.  Runs of geo-rebuild may overlap each other and the edits of *)
(* the shop table: docs/api/geo.md advises against it, nothing forbids it. *)
(* A builder is one run of the command, and the random name of the         *)
(* temporary key of that run: it runs again once that key is gone.         *)
(* Distance is abstracted: a query finds any part of the index within its  *)
(* limit.  A key without members does not exist in Redis.                  *)
(***************************************************************************)
EXTENDS Naturals, FiniteSets

CONSTANTS
    Types,       \* the rows of shop_type
    Shops,       \* shop IDs
    Polar,       \* shops at a latitude MySQL stores and Redis cannot index
    Builders,    \* overlapping runs of geo-rebuild
    Readers,     \* overlapping GET /shops/nearby
    Limit,       \* candidates per query
    Batch,       \* members per GEOADD (500 in the code)
    MaxEdits,    \* bound: edits of the shop table
    MaxFaults    \* bound: failed or unanswered calls and lost keys

ASSUME GeoAssumption ==
    /\ IsFiniteSet(Types) /\ IsFiniteSet(Shops) /\ Polar \subseteq Shops
    /\ Types \cap Builders = {}
    /\ Limit \in Nat \ {0} /\ Batch \in Nat \ {0}
    /\ MaxEdits \in Nat /\ MaxFaults \in Nat

VARIABLES
    shopType,    \* [Shops -> type_id, NoType if there is no such row]
    edits, faults,
    index,       \* [Types -> members of the :index key]
    ready,       \* [Types -> {n} for a :ready marker n, NoMarker for none]
    temporary,   \* [Builders -> members of the :build key]
    expiring,    \* the :index keys and :build keys that have a TTL
    builder,     \* [Builders -> the run of geo-rebuild]
    reader,      \* [Readers -> the query]
    published,   \* history: [Types -> the rows behind the last publication]
    asOf         \* history: [Types -> edits before those rows were read]

geoVars == <<shopType, edits, faults, index, ready, temporary, expiring,
             builder, reader, published, asOf>>
tableVars == <<shopType, edits>>
liveVars == <<index, ready, published, asOf>>

NoType == "no row"
NoMarker == {}

Stopped == [pc |-> "idle", todo |-> {}, type |-> NoType, view |-> {},
            rest |-> {}, edits |-> 0]
NoQuery == [pc |-> "idle", type |-> NoType, hits |-> {}, asOf |-> 0]

GeoInit ==
    /\ shopType \in [Shops -> Types \cup {NoType}]
    /\ edits = 0
    /\ faults = 0
    /\ index = [t \in Types |-> {}]
    /\ ready = [t \in Types |-> NoMarker]
    /\ temporary = [b \in Builders |-> {}]
    /\ expiring = {}
    /\ builder = [b \in Builders |-> Stopped]
    /\ reader = [r \in Readers |-> NoQuery]
    /\ published = [t \in Types |-> {}]
    /\ asOf = [t \in Types |-> 0]

Fault == faults < MaxFaults /\ faults' = faults + 1

\* Mutant: the query forgets the category.
ForAnyType(t) == {s \in Shops : shopType[s] # NoType}

ForType(t) == {s \in Shops : shopType[s] = t}

-----------------------------------------------------------------------------
(* geo-rebuild *)

\* All categories, or the one of -type-id.
RunStart(b, S) ==
    /\ builder[b] = Stopped
    /\ temporary[b] = {}
    /\ builder' = [builder EXCEPT ![b].pc = "query", ![b].todo = S]
    /\ UNCHANGED <<tableVars, faults, liveVars, temporary, expiring, reader>>

\* One category is read; a shop that cannot be indexed ends the whole run,
\* and the categories it has already published stay published.
RunQuery(b, t) ==
    /\ builder[b].pc = "query"
    /\ t \in builder[b].todo
    /\ builder' = [builder EXCEPT ![b] =
          IF ForType(t) \cap Polar # {} THEN Stopped
          ELSE [@ EXCEPT !.pc = "build", !.type = t, !.view = ForType(t),
                         !.rest = ForType(t), !.edits = edits]]
    /\ UNCHANGED <<tableVars, faults, liveVars, temporary, expiring, reader>>

\* Mutant: the pipeline adds members and sets no TTL.
WithoutTTL(b) == expiring

\* EXPIRE follows GEOADD in the same MULTI.
WithTTL(b) == expiring \cup {b}

Chunks(S) == {C \in SUBSET S : Cardinality(C) = Batch
                               \/ (C = S /\ Cardinality(S) < Batch)}

AddBatch(b) ==
    /\ builder[b].pc = "build"
    /\ builder[b].rest # {}
    /\ \E C \in Chunks(builder[b].rest) :
       /\ temporary' = [temporary EXCEPT ![b] = @ \cup C]
       /\ builder' = [builder EXCEPT ![b].rest = @ \ C]
    /\ expiring' = WithTTL(b)
    /\ UNCHANGED <<tableVars, faults, liveVars, reader>>

\* Mutant: the script trusts the builder.
CompleteUnchecked(b) == TRUE

\* ZCARD, against the number of rows read.
Complete(b) == Cardinality(temporary[b]) = Cardinality(builder[b].view)

\* Mutant: RENAME hands the TTL of the temporary key to the live one.
PersistForgotten(keys, t) == keys

Persist(keys, t) == keys \ {t}

\* RENAME moves the key with its TTL, if it has one.
Renamed(b, t) ==
    (expiring \ {b, t}) \cup (IF b \in expiring THEN {t} ELSE {})

\* The effect of the publish script.
Publish(b, t) ==
    /\ builder[b].view # {} => Complete(b)
    /\ index' = [index EXCEPT ![t] = temporary[b]]
    /\ ready' = [ready EXCEPT ![t] = {Cardinality(builder[b].view)}]
    /\ temporary' = [temporary EXCEPT ![b] = {}]
    /\ expiring' = IF builder[b].view = {} THEN expiring \ {t}
                   ELSE Persist(Renamed(b, t), t)
    /\ published' = [published EXCEPT ![t] = builder[b].view]
    /\ asOf' = [asOf EXCEPT ![t] = builder[b].edits]

\* After the last category the command exits.
NextType(b, t) ==
    IF builder[b].todo = {t} THEN Stopped
    ELSE [Stopped EXCEPT !.pc = "query", !.todo = builder[b].todo \ {t}]

RunPublish(b) ==
    LET t == builder[b].type IN
    /\ builder[b].pc = "build"
    /\ builder[b].rest = {}
    /\ Publish(b, t)
    /\ builder' = [builder EXCEPT ![b] = NextType(b, t)]
    /\ UNCHANGED <<tableVars, faults, reader>>

\* The script ran but its answer is lost.  The Redis client sends it again
\* (RunPublish), which finds no temporary key, or gives up (RunFails).
RunPublishUnanswered(b) ==
    /\ builder[b].pc = "build"
    /\ builder[b].rest = {}
    /\ Fault
    /\ Publish(b, builder[b].type)
    /\ UNCHANGED <<tableVars, builder, reader>>

\* GEO_BUILD_INCOMPLETE; the deferred DEL removes what there is.
RunRefused(b) ==
    /\ builder[b].pc = "build"
    /\ builder[b].rest = {}
    /\ builder[b].view # {} /\ ~Complete(b)
    /\ builder' = [builder EXCEPT ![b] = Stopped]
    /\ temporary' = [temporary EXCEPT ![b] = {}]
    /\ expiring' = expiring \ {b}
    /\ UNCHANGED <<tableVars, faults, liveVars, reader>>

\* A call fails or the process dies.  The deferred DEL is executed or not,
\* and a batch may have reached Redis before the failure.
RunFails(b) ==
    /\ builder[b].pc # "idle"
    /\ Fault
    /\ builder' = [builder EXCEPT ![b] = Stopped]
    /\ \/ temporary' = [temporary EXCEPT ![b] = {}] /\ expiring' = expiring \ {b}
       \/ UNCHANGED <<temporary, expiring>>
       \/ \E C \in Chunks(builder[b].rest) \ {{}} :
             /\ temporary' = [temporary EXCEPT ![b] = @ \cup C]
             /\ expiring' = WithTTL(b)
    /\ UNCHANGED <<tableVars, liveVars, reader>>

-----------------------------------------------------------------------------
(* GET /shops/nearby *)

\* Mutant: the marker alone is believed.
UsableIfMarked(t) == ready[t] # NoMarker

\* The marker must agree with the existence of the key.
Usable(t) ==
    /\ ready[t] # NoMarker
    /\ (ready[t] = {0}) <=> (index[t] = {})

\* Marker and index are read in one Redis transaction.  Without hits the
\* answer is empty and MySQL is not asked.
ReadIndex(r, t) ==
    /\ reader[r] = NoQuery
    /\ Usable(t)
    /\ \E H \in SUBSET index[t] :
       /\ Cardinality(H) <= Limit
       /\ reader' = [reader EXCEPT ![r] =
             [pc |-> IF H = {} THEN "answered" ELSE "rows",
              type |-> t, hits |-> H, asOf |-> asOf[t]]]
    /\ UNCHANGED <<tableVars, faults, liveVars, temporary, expiring, builder>>

\* Mutant: whatever still has a row is shown.
StillThere(r) == {s \in reader[r].hits : shopType[s] # NoType}

\* The hits that have a row of the requested category.
Shown(r) == {s \in reader[r].hits : shopType[s] = reader[r].type}

ReadRows(r) ==
    /\ reader[r].pc = "rows"
    /\ reader' = [reader EXCEPT ![r].pc = "answered", ![r].hits = Shown(r)]
    /\ UNCHANGED <<tableVars, faults, liveVars, temporary, expiring, builder>>

\* The answer was received, or the call for the rows failed.
ReaderLeaves(r) ==
    /\ reader[r].pc \in {"rows", "answered"}
    /\ IF reader[r].pc = "rows" THEN Fault ELSE UNCHANGED faults
    /\ reader' = [reader EXCEPT ![r] = NoQuery]
    /\ UNCHANGED <<tableVars, liveVars, temporary, expiring, builder>>

-----------------------------------------------------------------------------
(* Environment *)

\* Shops are imported, moved and deleted by SQL.
Edit(s) ==
    /\ edits < MaxEdits
    /\ edits' = edits + 1
    /\ \E t \in (Types \cup {NoType}) \ {shopType[s]} :
          shopType' = [shopType EXCEPT ![s] = t]
    /\ UNCHANGED <<faults, liveVars, temporary, expiring, builder, reader>>

\* A temporary key that was left behind expires: its TTL exceeds any run.
Expire(b) ==
    /\ builder[b] = Stopped
    /\ b \in expiring
    /\ temporary' = [temporary EXCEPT ![b] = {}]
    /\ expiring' = expiring \ {b}
    /\ UNCHANGED <<tableVars, faults, liveVars, builder, reader>>

\* Redis evicts a temporary key under a running builder.
LoseTemporary(b) ==
    /\ temporary[b] # {}
    /\ Fault
    /\ temporary' = [temporary EXCEPT ![b] = {}]
    /\ expiring' = expiring \ {b}
    /\ UNCHANGED <<tableVars, liveVars, builder, reader>>

LoseIndex(t) ==
    /\ index[t] # {}
    /\ Fault
    /\ index' = [index EXCEPT ![t] = {}]
    /\ expiring' = expiring \ {t}
    /\ UNCHANGED <<tableVars, ready, published, asOf, temporary, builder,
                   reader>>

LoseMarker(t) ==
    /\ ready[t] # NoMarker
    /\ Fault
    /\ ready' = [ready EXCEPT ![t] = NoMarker]
    /\ UNCHANGED <<tableVars, index, published, asOf, temporary, expiring,
                   builder, reader>>

-----------------------------------------------------------------------------
RunStep(b) ==
    \/ \E S \in {Types} \cup {{t} : t \in Types} : RunStart(b, S)
    \/ \E t \in Types : RunQuery(b, t)
    \/ AddBatch(b)
    \/ RunPublish(b)
    \/ RunPublishUnanswered(b)
    \/ RunRefused(b)
    \/ RunFails(b)

ReaderStep(r) ==
    \/ \E t \in Types : ReadIndex(r, t)
    \/ ReadRows(r)
    \/ ReaderLeaves(r)

GeoNext ==
    \/ \E b \in Builders : RunStep(b) \/ Expire(b) \/ LoseTemporary(b)
    \/ \E r \in Readers : ReaderStep(r)
    \/ \E s \in Shops : Edit(s)
    \/ \E t \in Types : LoseIndex(t) \/ LoseMarker(t)

GeoSpec == GeoInit /\ [][GeoNext]_geoVars

-----------------------------------------------------------------------------
(* Properties *)

\* Whatever overlaps, fails or is lost, a live index is never a part of a
\* category nor a mix of two builds: it is exactly the rows one builder read
\* in one query, and the marker counts them.
IndexIsWhole ==
    \A t \in Types :
       index[t] # {} =>
          /\ index[t] = published[t]
          /\ ready[t] \in {NoMarker, {Cardinality(index[t])}}

\* A query that answers has read a complete index: a lost index or marker is
\* an error for the reader, never an empty neighbourhood.
LossIsNotEmptiness ==
    [][ \A r \in Readers, t \in Types :
          ReadIndex(r, t) => index[t] = published[t] ]_geoVars

\* Temporary keys always expire, so a crashed builder leaves nothing behind
\* for ever; live ones never do, although they are renamed temporary ones.
OnlyTemporariesExpire ==
    /\ expiring \cap Types = {}
    /\ \A b \in Builders : temporary[b] # {} => b \in expiring

\* A shop that left the category since the index was built is not shown, and
\* as long as nobody edited the table since then no candidate is dropped,
\* whichever of several builders published last and whatever it replaced
\* between the two reads of the query.
AnswersFollowTheTable ==
    [][ \A r \in Readers :
          ReadRows(r) =>
             /\ reader'[r].hits \subseteq ForType(reader[r].type)
             /\ reader[r].asOf = edits => reader'[r].hits = reader[r].hits
      ]_geoVars
=============================================================================
