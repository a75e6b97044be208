-------------------------- MODULE GeoIndex_proofs ---------------------------
(***************************************************************************)
(* The four properties of GeoIndex for any number of categories, shops,    *)
(* builders and readers.  GeoInv adds to them what makes them inductive:   *)
(* a builder's key never holds more than the rows it read, the marker      *)
(* counts the rows behind the last publication, and a view of the table    *)
(* that no edit has overtaken still agrees with it.                        *)
(***************************************************************************)
EXTENDS GeoIndex, FiniteSetTheorems, TLAPS

Run == [pc : {"idle", "query", "build"}, todo : SUBSET Types,
        type : Types \cup {NoType}, view : SUBSET Shops, rest : SUBSET Shops,
        edits : Nat]
Query == [pc : {"idle", "rows", "answered"}, type : Types \cup {NoType},
          hits : SUBSET Shops, asOf : Nat]

GeoTypeOK ==
    /\ edits \in Nat
    /\ index \in [Types -> SUBSET Shops]
    /\ ready \in [Types -> SUBSET Nat]
    /\ temporary \in [Builders -> SUBSET Shops]
    /\ expiring \subseteq Types \cup Builders
    /\ builder \in [Builders -> Run]
    /\ reader \in [Readers -> Query]
    /\ published \in [Types -> SUBSET Shops]
    /\ asOf \in [Types -> Nat]
    /\ shopType \in [Shops -> Types \cup {NoType}]

BuildInv ==
    \A b \in Builders :
       /\ builder[b].pc = "query" => temporary[b] = {}
       /\ builder[b].pc = "build" =>
             /\ builder[b].type \in Types
             /\ temporary[b] \subseteq builder[b].view
             /\ builder[b].rest \subseteq builder[b].view
             /\ builder[b].edits <= edits
             /\ builder[b].edits = edits =>
                   builder[b].view \subseteq ForType(builder[b].type)

MarkerInv ==
    \A t \in Types :
       /\ ready[t] \in {NoMarker, {Cardinality(published[t])}}
       /\ index[t] \in {{}, published[t]}

CurrentInv ==
    /\ \A t \in Types :
          /\ asOf[t] <= edits
          /\ asOf[t] = edits => published[t] \subseteq ForType(t)
    /\ \A r \in Readers :
          reader[r].pc = "rows" =>
             /\ reader[r].asOf <= edits
             /\ reader[r].asOf = edits =>
                   reader[r].hits \subseteq ForType(reader[r].type)

GeoInv ==
    GeoTypeOK /\ BuildInv /\ MarkerInv /\ CurrentInv /\ OnlyTemporariesExpire
-----------------------------------------------------------------------------
\* A temporary key that counts as complete holds the whole view.
LEMMA CompleteIsWhole ==
  ASSUME GeoTypeOK, BuildInv, NEW b \in Builders, builder[b].pc = "build",
         builder[b].view # {} => Complete(b)
  PROVE  temporary[b] = builder[b].view
<1>1. temporary[b] \subseteq builder[b].view /\ builder[b].view \subseteq Shops
  BY DEF BuildInv, GeoTypeOK, Run
<1>2. IsFiniteSet(builder[b].view)
  BY <1>1, GeoAssumption, FS_Subset DEF GeoAssumption
<1>3. CASE builder[b].view = {}
  BY <1>1, <1>3
<1>4. CASE builder[b].view # {}
  <2>1. Cardinality(temporary[b]) = Cardinality(builder[b].view)
    BY <1>4 DEF Complete
  <2> QED BY <1>1, <1>2, <2>1, FS_Subset
<1> QED BY <1>3, <1>4

LEMMA InitGeo == GeoInit => GeoInv
<1> SUFFICES ASSUME GeoInit PROVE GeoInv
  OBVIOUS
<1>1. GeoTypeOK
  BY DEF GeoInit, GeoTypeOK, Run, Query, Stopped, NoQuery, NoMarker
<1>2. BuildInv
  BY DEF GeoInit, BuildInv, Stopped
<1>3. MarkerInv
  BY DEF GeoInit, MarkerInv
<1>4. CurrentInv
  BY DEF GeoInit, CurrentInv, NoQuery, ForType
<1>5. OnlyTemporariesExpire
  BY DEF GeoInit, OnlyTemporariesExpire
<1> QED BY <1>1, <1>2, <1>3, <1>4, <1>5 DEF GeoInv

\* The publish script, whether or not its answer arrives.
LEMMA PublishKeeps ==
  ASSUME GeoInv, NEW b \in Builders, builder[b].pc = "build",
         Publish(b, builder[b].type), UNCHANGED <<tableVars, reader>>
  PROVE  /\ index' \in [Types -> SUBSET Shops]
         /\ ready' \in [Types -> SUBSET Nat]
         /\ published' \in [Types -> SUBSET Shops]
         /\ asOf' \in [Types -> Nat]
         /\ temporary' \in [Builders -> SUBSET Shops]
         /\ expiring' \subseteq Types \cup Builders
         /\ MarkerInv' /\ CurrentInv' /\ OnlyTemporariesExpire'
<1> DEFINE t == builder[b].type
           V == builder[b].view
<1>1. /\ t \in Types /\ V \subseteq Shops /\ builder[b].edits \in Nat
      /\ builder[b].edits <= edits
      /\ builder[b].edits = edits => V \subseteq ForType(t)
  BY DEF GeoInv, GeoTypeOK, BuildInv, Run
<1>2. temporary[b] = V
  BY CompleteIsWhole DEF GeoInv, Publish
<1>3. IsFiniteSet(V) /\ Cardinality(V) \in Nat
  BY <1>1, GeoAssumption, FS_Subset, FS_CardinalityType DEF GeoAssumption
<1>4. /\ index' = [index EXCEPT ![t] = V]
      /\ ready' = [ready EXCEPT ![t] = {Cardinality(V)}]
      /\ temporary' = [temporary EXCEPT ![b] = {}]
      /\ published' = [published EXCEPT ![t] = V]
      /\ asOf' = [asOf EXCEPT ![t] = builder[b].edits]
  BY <1>2 DEF Publish
<1>5. /\ expiring' \subseteq (expiring \ {t}) \cup {t}
      /\ t \notin expiring'
      /\ expiring \ {b, t} \subseteq expiring'
  BY DEF Publish, Persist, Renamed
<1> HIDE DEF t, V
<1>6. MarkerInv'
  BY <1>1, <1>4 DEF MarkerInv, GeoInv, GeoTypeOK
<1>7. CurrentInv'
  BY <1>1, <1>4 DEF CurrentInv, GeoInv, GeoTypeOK, tableVars, ForType
<1>8. OnlyTemporariesExpire'
  BY <1>1, <1>4, <1>5, GeoAssumption
     DEF OnlyTemporariesExpire, GeoInv, GeoTypeOK, GeoAssumption
<1>9. /\ index' \in [Types -> SUBSET Shops]
      /\ ready' \in [Types -> SUBSET Nat]
      /\ published' \in [Types -> SUBSET Shops]
      /\ asOf' \in [Types -> Nat]
      /\ temporary' \in [Builders -> SUBSET Shops]
      /\ expiring' \subseteq Types \cup Builders
  BY <1>1, <1>3, <1>4, <1>5 DEF GeoInv, GeoTypeOK
<1> QED BY <1>6, <1>7, <1>8, <1>9

LEMMA RunKeeps ==
  ASSUME GeoInv, NEW b \in Builders, RunStep(b)
  PROVE  GeoInv'
<1> USE DEF GeoInv, tableVars, liveVars
<1>t. GeoTypeOK /\ builder[b] \in Run
  BY DEF GeoTypeOK
<1>1. ASSUME NEW S \in {Types} \cup {{t} : t \in Types}, RunStart(b, S)
      PROVE  GeoInv'
  <2> USE <1>1 DEF RunStart
  <2>0. S \subseteq Types
    OBVIOUS
  <2>1. GeoTypeOK'
    BY <2>0, <1>t DEF GeoTypeOK, Run
  <2>2. BuildInv'
    BY <1>t DEF GeoTypeOK, BuildInv, ForType
  <2>3. MarkerInv' /\ CurrentInv' /\ OnlyTemporariesExpire'
    BY DEF MarkerInv, CurrentInv, OnlyTemporariesExpire, ForType
  <2> QED BY <2>1, <2>2, <2>3
<1>2. ASSUME NEW t \in Types, RunQuery(b, t)
      PROVE  GeoInv'
  <2> USE <1>2 DEF RunQuery
  <2>0. /\ ForType(t) \subseteq Shops /\ ForType(t)' = ForType(t)
        /\ temporary[b] = {} /\ edits \in Nat
    BY DEF ForType, BuildInv, GeoTypeOK
  <2>1. GeoTypeOK'
    BY <2>0, <1>t DEF GeoTypeOK, Run, Stopped
  <2>2. BuildInv'
    BY <2>0, <1>t DEF GeoTypeOK, BuildInv, Run, Stopped, ForType
  <2>3. MarkerInv' /\ CurrentInv' /\ OnlyTemporariesExpire'
    BY DEF MarkerInv, CurrentInv, OnlyTemporariesExpire, ForType
  <2> QED BY <2>1, <2>2, <2>3
<1>3. ASSUME AddBatch(b)
      PROVE  GeoInv'
  <2> USE <1>3 DEF AddBatch
  <2>1. PICK C \in Chunks(builder[b].rest) :
           /\ temporary' = [temporary EXCEPT ![b] = @ \cup C]
           /\ builder' = [builder EXCEPT ![b].rest = @ \ C]
    OBVIOUS
  <2>2. C \subseteq builder[b].rest /\ builder[b].rest \subseteq Shops
    BY <1>t DEF Chunks, Run
  <2>3. GeoTypeOK'
    BY <2>1, <2>2, <1>t DEF GeoTypeOK, Run, WithTTL
  <2>4. BuildInv'
    BY <2>1, <2>2, <1>t DEF GeoTypeOK, BuildInv, Run, ForType
  <2>5. OnlyTemporariesExpire'
    BY <2>1, <1>t, GeoAssumption
       DEF OnlyTemporariesExpire, WithTTL, GeoTypeOK, GeoAssumption
  <2>6. MarkerInv' /\ CurrentInv'
    BY DEF MarkerInv, CurrentInv, ForType
  <2> QED BY <2>3, <2>4, <2>5, <2>6
<1>4. ASSUME builder[b].pc = "build", Publish(b, builder[b].type),
             UNCHANGED <<tableVars, reader>>,
             builder' \in {builder,
                [builder EXCEPT ![b] = NextType(b, builder[b].type)]}
      PROVE  GeoInv'
  <2>1. /\ index' \in [Types -> SUBSET Shops]
        /\ ready' \in [Types -> SUBSET Nat]
        /\ published' \in [Types -> SUBSET Shops]
        /\ asOf' \in [Types -> Nat]
        /\ temporary' \in [Builders -> SUBSET Shops]
        /\ expiring' \subseteq Types \cup Builders
        /\ MarkerInv' /\ CurrentInv' /\ OnlyTemporariesExpire'
    BY <1>4, PublishKeeps
  <2>2. temporary' = [temporary EXCEPT ![b] = {}]
    BY <1>4 DEF Publish
  <2>3. NextType(b, builder[b].type) \in Run
    BY <1>t DEF NextType, Stopped, Run
  <2>4. NextType(b, builder[b].type).pc # "build"
    BY DEF NextType, Stopped
  <2>5. builder' \in [Builders -> Run]
    BY <1>4, <2>3 DEF GeoTypeOK
  <2>6. BuildInv'
    BY <1>4, <2>2, <2>4, <1>t DEF GeoTypeOK, BuildInv, ForType
  <2> QED BY <1>4, <2>1, <2>5, <2>6 DEF GeoTypeOK
<1>5. ASSUME builder' = [builder EXCEPT ![b] = Stopped],
             temporary' = [temporary EXCEPT ![b] = {}],
             expiring' = expiring \ {b},
             UNCHANGED <<tableVars, liveVars, reader>>
      PROVE  GeoInv'
  <2> USE <1>5
  <2>1. GeoTypeOK'
    BY <1>t DEF GeoTypeOK, Run, Stopped
  <2>2. BuildInv'
    BY <1>t DEF GeoTypeOK, BuildInv, Stopped, ForType
  <2>3. MarkerInv' /\ CurrentInv' /\ OnlyTemporariesExpire'
    BY <1>t DEF MarkerInv, CurrentInv, OnlyTemporariesExpire, ForType, GeoTypeOK
  <2> QED BY <2>1, <2>2, <2>3
<1>6. ASSUME RunFails(b)
      PROVE  GeoInv'
  <2> USE <1>6 DEF RunFails
  <2>1. CASE temporary' = [temporary EXCEPT ![b] = {}] /\ expiring' = expiring \ {b}
    BY <2>1, <1>5
  <2>2. CASE UNCHANGED <<temporary, expiring>>
    <3>1. GeoTypeOK'
      BY <2>2, <1>t DEF GeoTypeOK, Run, Stopped
    <3>2. BuildInv'
      BY <2>2, <1>t DEF GeoTypeOK, BuildInv, Stopped, ForType
    <3>3. MarkerInv' /\ CurrentInv' /\ OnlyTemporariesExpire'
      BY <2>2 DEF MarkerInv, CurrentInv, OnlyTemporariesExpire, ForType
    <3> QED BY <3>1, <3>2, <3>3
  <2>3. ASSUME NEW C \in Chunks(builder[b].rest),
               temporary' = [temporary EXCEPT ![b] = @ \cup C],
               expiring' = WithTTL(b)
        PROVE  GeoInv'
    <3>0. C \subseteq Shops
      BY <1>t DEF Chunks, Run
    <3>1. GeoTypeOK'
      BY <2>3, <3>0, <1>t DEF GeoTypeOK, Run, Stopped, WithTTL
    <3>2. BuildInv'
      BY <2>3, <1>t DEF GeoTypeOK, BuildInv, Stopped, ForType
    <3>3. OnlyTemporariesExpire'
      BY <2>3, <1>t, GeoAssumption
         DEF OnlyTemporariesExpire, WithTTL, GeoTypeOK, GeoAssumption
    <3>4. MarkerInv' /\ CurrentInv'
      BY DEF MarkerInv, CurrentInv, ForType
    <3> QED BY <3>1, <3>2, <3>3, <3>4
  <2> QED BY <2>1, <2>2, <2>3
<1>7. CASE RunPublish(b)
  BY <1>7, <1>4 DEF RunPublish
<1>8. CASE RunPublishUnanswered(b)
  BY <1>8, <1>4 DEF RunPublishUnanswered
<1>9. CASE RunRefused(b)
  BY <1>9, <1>5 DEF RunRefused
<1> QED BY <1>1, <1>2, <1>3, <1>6, <1>7, <1>8, <1>9 DEF RunStep

LEMMA ReaderKeeps ==
  ASSUME GeoInv, NEW r \in Readers, ReaderStep(r)
  PROVE  GeoInv'
<1> USE DEF GeoInv, tableVars, liveVars
<1>t. GeoTypeOK /\ reader[r] \in Query
  BY DEF GeoTypeOK
<1>0. /\ BuildInv' = BuildInv /\ MarkerInv' = MarkerInv
      /\ OnlyTemporariesExpire' = OnlyTemporariesExpire
      /\ UNCHANGED <<tableVars, liveVars, temporary, expiring, builder>>
  BY DEF ReaderStep, ReadIndex, ReadRows, ReaderLeaves, BuildInv, MarkerInv,
         OnlyTemporariesExpire, ForType
<1>1. ASSUME NEW t \in Types, ReadIndex(r, t)
      PROVE  GeoTypeOK' /\ CurrentInv'
  <2> USE <1>1 DEF ReadIndex
  <2>1. PICK H \in SUBSET index[t] :
           reader' = [reader EXCEPT ![r] =
             [pc |-> IF H = {} THEN "answered" ELSE "rows",
              type |-> t, hits |-> H, asOf |-> asOf[t]]]
    OBVIOUS
  <2>2. H \subseteq Shops /\ H \subseteq published[t] /\ asOf[t] \in Nat
    BY DEF GeoTypeOK, MarkerInv
  <2>3. GeoTypeOK'
    BY <2>1, <2>2, <1>t DEF GeoTypeOK, Query, NoQuery
  <2>4. CurrentInv'
    BY <2>1, <2>2, <1>t DEF GeoTypeOK, CurrentInv, NoQuery, ForType
  <2> QED BY <2>3, <2>4
<1>2. ASSUME ReadRows(r)
      PROVE  GeoTypeOK' /\ CurrentInv'
  <2>1. GeoTypeOK'
    BY <1>2, <1>t DEF ReadRows, GeoTypeOK, Query, Shown
  <2>2. CurrentInv'
    BY <1>2, <1>t DEF ReadRows, GeoTypeOK, CurrentInv, ForType
  <2> QED BY <2>1, <2>2
<1>3. ASSUME ReaderLeaves(r)
      PROVE  GeoTypeOK' /\ CurrentInv'
  <2>1. GeoTypeOK'
    BY <1>3, <1>t DEF ReaderLeaves, GeoTypeOK, Query, NoQuery
  <2>2. CurrentInv'
    BY <1>3, <1>t DEF ReaderLeaves, GeoTypeOK, CurrentInv, NoQuery, ForType
  <2> QED BY <2>1, <2>2
<1> QED BY <1>0, <1>1, <1>2, <1>3 DEF ReaderStep

\* A key disappears: the temporary key of b, the index or the marker of t.
LEMMA LossKeeps ==
  ASSUME GeoInv, UNCHANGED <<tableVars, published, asOf, builder, reader>>,
         \/ \E b \in Builders : /\ temporary' = [temporary EXCEPT ![b] = {}]
                                /\ expiring' = expiring \ {b}
                                /\ UNCHANGED <<index, ready>>
         \/ \E t \in Types : LoseIndex(t) \/ LoseMarker(t)
  PROVE  GeoInv'
<1> USE DEF GeoInv, tableVars
<1>1. GeoTypeOK'
  BY DEF GeoTypeOK, LoseIndex, LoseMarker, NoMarker
<1>2. BuildInv'
  BY DEF GeoTypeOK, BuildInv, LoseIndex, LoseMarker, ForType
<1>3. MarkerInv'
  BY DEF GeoTypeOK, MarkerInv, LoseIndex, LoseMarker
<1>4. CurrentInv'
  BY DEF CurrentInv, ForType
<1>5. OnlyTemporariesExpire'
  BY DEF GeoTypeOK, OnlyTemporariesExpire, LoseIndex, LoseMarker
<1> QED BY <1>1, <1>2, <1>3, <1>4, <1>5

\* After an edit no view is current any more.
LEMMA EditKeeps ==
  ASSUME GeoInv, NEW s \in Shops, Edit(s)
  PROVE  GeoInv'
<1> USE DEF GeoInv, Edit, tableVars, liveVars
<1>1. GeoTypeOK'
  BY DEF GeoTypeOK
<1>2. edits' = edits + 1 /\ edits \in Nat
  BY DEF GeoTypeOK
<1>3. BuildInv'
  <2> SUFFICES ASSUME NEW b \in Builders, builder[b].pc = "build"
               PROVE  builder[b].edits <= edits' /\ builder[b].edits # edits'
    BY DEF BuildInv
  <2>1. builder[b].edits \in Nat /\ builder[b].edits <= edits
    BY DEF GeoTypeOK, Run, BuildInv
  <2> QED BY <1>2, <2>1
<1>4. CurrentInv'
  <2>1. \A t \in Types : asOf[t] <= edits' /\ asOf[t] # edits'
    BY <1>2 DEF GeoTypeOK, CurrentInv
  <2>2. ASSUME NEW r \in Readers, reader[r].pc = "rows"
        PROVE  reader[r].asOf <= edits' /\ reader[r].asOf # edits'
    <3>1. reader[r].asOf \in Nat /\ reader[r].asOf <= edits
      BY <2>2 DEF GeoTypeOK, Query, CurrentInv
    <3> QED BY <1>2, <3>1
  <2> QED BY <2>1, <2>2 DEF CurrentInv
<1>5. MarkerInv' /\ OnlyTemporariesExpire'
  BY DEF MarkerInv, OnlyTemporariesExpire
<1> QED BY <1>1, <1>3, <1>4, <1>5

LEMMA GeoStep == GeoInv /\ [GeoNext]_geoVars => GeoInv'
<1> SUFFICES ASSUME GeoInv, [GeoNext]_geoVars PROVE GeoInv'
  OBVIOUS
<1>1. ASSUME NEW b \in Builders, Expire(b) \/ LoseTemporary(b)
      PROVE  GeoInv'
  BY <1>1, LossKeeps DEF Expire, LoseTemporary, liveVars
<1>2. ASSUME NEW t \in Types, LoseIndex(t) \/ LoseMarker(t)
      PROVE  GeoInv'
  BY <1>2, LossKeeps DEF LoseIndex, LoseMarker
<1>3. CASE UNCHANGED geoVars
  BY <1>3 DEF geoVars, GeoInv, GeoTypeOK, BuildInv, MarkerInv, CurrentInv,
              OnlyTemporariesExpire, ForType
<1> QED BY <1>1, <1>2, <1>3, RunKeeps, ReaderKeeps, EditKeeps DEF GeoNext

-----------------------------------------------------------------------------
\* The whole invariant, from the first state on.
THEOREM GeoInvHolds == GeoSpec => []GeoInv
<1> QED BY InitGeo, GeoStep, PTL DEF GeoSpec

\* A live index is always exactly what one builder read in one query.
THEOREM IndexAlwaysWhole == GeoSpec => []IndexIsWhole
<1>1. GeoInv => IndexIsWhole
  BY DEF GeoInv, MarkerInv, IndexIsWhole
<1> QED BY <1>1, GeoInvHolds, PTL

\* Temporary keys always have a TTL and live ones never, with any number of
\* builders that fail anywhere.
THEOREM OnlyTemporariesEverExpire == GeoSpec => []OnlyTemporariesExpire
<1>1. GeoInv => OnlyTemporariesExpire
  BY DEF GeoInv
<1> QED BY <1>1, GeoInvHolds, PTL

\* A query never takes a lost index for an empty one.
THEOREM LossIsNeverEmptiness == GeoSpec => LossIsNotEmptiness
<1>1. ASSUME GeoInv, NEW r \in Readers, NEW t \in Types, ReadIndex(r, t)
      PROVE  index[t] = published[t]
  <2>1. published[t] \in SUBSET Shops /\ IsFiniteSet(published[t])
    BY <1>1, GeoAssumption, FS_Subset DEF GeoInv, GeoTypeOK, GeoAssumption
  <2>2. CASE index[t] = {}
    <3>1. Cardinality(published[t]) = 0
      BY <1>1, <2>2 DEF ReadIndex, Usable, GeoInv, MarkerInv
    <3> QED BY <2>1, <2>2, <3>1, FS_EmptySet
  <2> QED BY <1>1, <2>2 DEF GeoInv, MarkerInv
<1>2. GeoInv /\ [GeoNext]_geoVars =>
        [\A r \in Readers, t \in Types :
           ReadIndex(r, t) => index[t] = published[t]]_geoVars
  BY <1>1
<1> QED BY <1>2, GeoInvHolds, PTL DEF GeoSpec, LossIsNotEmptiness

\* Answers hold no shop that left the category and miss no candidate while
\* the table is as it was when the index was built.
THEOREM AnswersAlwaysFollowTheTable == GeoSpec => AnswersFollowTheTable
<1>1. ASSUME GeoInv, NEW r \in Readers, ReadRows(r)
      PROVE  /\ reader'[r].hits \subseteq ForType(reader[r].type)
             /\ reader[r].asOf = edits => reader'[r].hits = reader[r].hits
  <2>1. reader'[r].hits = Shown(r) /\ reader[r].hits \subseteq Shops
    BY <1>1 DEF ReadRows, GeoInv, GeoTypeOK, Query
  <2>2. reader[r].asOf = edits =>
           reader[r].hits \subseteq ForType(reader[r].type)
    BY <1>1 DEF ReadRows, GeoInv, CurrentInv
  <2> QED BY <2>1, <2>2 DEF Shown, ForType
<1>2. GeoInv /\ [GeoNext]_geoVars =>
        [\A r \in Readers : ReadRows(r) =>
             /\ reader'[r].hits \subseteq ForType(reader[r].type)
             /\ reader[r].asOf = edits => reader'[r].hits = reader[r].hits
        ]_geoVars
  BY <1>1
<1> QED BY <1>2, GeoInvHolds, PTL DEF GeoSpec, AnswersFollowTheTable
=============================================================================
