------------------------- MODULE MaskEngine_proofs --------------------------
(***************************************************************************)
(* Proofs about SessionStore and about MaskEngine, which uses it, for      *)
(* every set of keys, requests, session ids and secrets, every policy,     *)
(* TTL and bound.                                                          *)
(***************************************************************************)
EXTENDS MaskEngine, FiniteSetTheorems, TLAPS

-----------------------------------------------------------------------------
(* The session store.                                                      *)

\* What MapsAgree needs to be inductive: every entry of either map is the
\* record's own minting of the finding it stands for.
OwnMint(rec) ==
  /\ \A f \in DOMAIN rec.secret_to_placeholder :
       /\ rec.secret_to_placeholder[f] = MintFor(rec.hmac_key, f)
       /\ MintFor(rec.hmac_key, f) \in DOMAIN rec.placeholder_to_secret
  /\ \A p \in DOMAIN rec.placeholder_to_secret :
       \E f \in DOMAIN rec.secret_to_placeholder :
          /\ p = MintFor(rec.hmac_key, f)
          /\ rec.placeholder_to_secret[p] = f.value

\* Live records have keys of their own.
KeysDistinct ==
  \A j, k \in DOMAIN sessions :
    sessions[j].hmac_key = sessions[k].hmac_key => j = k

StoreInv ==
  /\ StoreTypeOK
  /\ \A k \in DOMAIN sessions : OwnMint(sessions[k])
  /\ KeysDistinct

-----------------------------------------------------------------------------
(* The record operations. *)

\* The maps of a record whose shape is right.
MapsOK(rec) ==
  /\ rec.hmac_key \in HmacKey
  /\ rec.placeholder_to_secret \in [DOMAIN rec.placeholder_to_secret -> Value]
  /\ DOMAIN rec.placeholder_to_secret \subseteq Placeholder
  /\ rec.secret_to_placeholder \in [DOMAIN rec.secret_to_placeholder -> Placeholder]
  /\ DOMAIN rec.secret_to_placeholder \subseteq Finding

\* What mint makes is a placeholder.
LEMMA MintIsPlaceholder ==
  ASSUME NEW h \in HmacKey, NEW f \in Finding
  PROVE  MintFor(h, f) \in Placeholder
BY DEF Placeholder

\* The secret chosen for a fresh placeholder is that of the one finding it was
\* minted for.
LEMMA FreshSecret ==
  ASSUME NEW h \in HmacKey, NEW N \in SUBSET Finding, NEW e \in N
  PROVE  (CHOOSE f \in N : MintFor(h, f) = MintFor(h, e)) = e
BY MintInjective

\* Masking more findings keeps both maps of the right shape.
LEMMA WithPlaceholdersMaps ==
  ASSUME NEW rec, MapsOK(rec), NEW F \in SUBSET Finding
  PROVE  MapsOK(WithPlaceholders(rec, F))
<1> DEFINE new == F \ DOMAIN rec.secret_to_placeholder
           fresh == {MintFor(rec.hmac_key, f) : f \in new}
<1>1. fresh \subseteq Placeholder
  BY MintIsPlaceholder DEF MapsOK
<1>2. \A p \in fresh :
        (CHOOSE f \in new : MintFor(rec.hmac_key, f) = p).value \in Value
  <2>1. ASSUME NEW e \in new
        PROVE  (CHOOSE f \in new : MintFor(rec.hmac_key, f)
                                     = MintFor(rec.hmac_key, e)).value \in Value
    BY FreshSecret DEF MapsOK, Finding
  <2>2. QED BY <2>1
<1>3. /\ Reverse(rec, F) \in [DOMAIN Reverse(rec, F) -> Value]
      /\ DOMAIN Reverse(rec, F) \subseteq Placeholder
  BY <1>1, <1>2 DEF Reverse, MapsOK
<1>4. /\ Forward(rec, F) \in [DOMAIN Forward(rec, F) -> Placeholder]
      /\ DOMAIN Forward(rec, F) \subseteq Finding
  BY MintIsPlaceholder DEF Forward, MapsOK
<1>5. QED BY <1>3, <1>4 DEF WithPlaceholders, MapsOK

\* ... and every entry the record's own minting.
LEMMA WithPlaceholdersOwnMint ==
  ASSUME NEW rec, MapsOK(rec), OwnMint(rec), NEW F \in SUBSET Finding
  PROVE  OwnMint(WithPlaceholders(rec, F))
<1> DEFINE known == DOMAIN rec.secret_to_placeholder
           new == F \ known
           h == rec.hmac_key
           out == WithPlaceholders(rec, F)
<1>1. /\ out.hmac_key = h
      /\ out.secret_to_placeholder = Forward(rec, F)
      /\ out.placeholder_to_secret = Reverse(rec, F)
  BY DEF WithPlaceholders
<1>2. /\ DOMAIN Forward(rec, F) = known \cup new
      /\ \A f \in known \cup new : Forward(rec, F)[f] = MintFor(h, f)
  BY DEF Forward, OwnMint
<1>3. DOMAIN Reverse(rec, F)
        = DOMAIN rec.placeholder_to_secret \cup {MintFor(h, f) : f \in new}
  BY DEF Reverse
<1>4. \A f \in known \cup new : MintFor(h, f) \in DOMAIN Reverse(rec, F)
  BY <1>3 DEF OwnMint
<1>5. ASSUME NEW f \in new
      PROVE  Reverse(rec, F)[MintFor(h, f)] = f.value
  <2>1. (CHOOSE e \in new : MintFor(h, e) = MintFor(h, f)) = f
    BY FreshSecret DEF MapsOK
  <2>2. QED BY <2>1 DEF Reverse
<1>6. ASSUME NEW p \in DOMAIN rec.placeholder_to_secret,
             p \notin {MintFor(h, f) : f \in new}
      PROVE  Reverse(rec, F)[p] = rec.placeholder_to_secret[p]
  BY <1>6 DEF Reverse
<1>7. ASSUME NEW p \in DOMAIN Reverse(rec, F)
      PROVE  \E f \in known \cup new : p = MintFor(h, f) /\ Reverse(rec, F)[p] = f.value
  <2>1. CASE p \in {MintFor(h, f) : f \in new}
    BY <2>1, <1>5
  <2>2. CASE p \notin {MintFor(h, f) : f \in new}
    <3>1. p \in DOMAIN rec.placeholder_to_secret
      BY <1>3, <2>2
    <3>2. QED BY <1>6, <2>2, <3>1 DEF OwnMint
  <2>3. QED BY <2>1, <2>2
<1>8. QED BY <1>1, <1>2, <1>4, <1>7 DEF OwnMint

\* Nothing a record already maps is lost or changed by masking more.
LEMMA WithPlaceholdersKeeps ==
  ASSUME NEW rec, MapsOK(rec), OwnMint(rec), NEW F \in SUBSET Finding,
         NEW p \in DOMAIN rec.placeholder_to_secret
  PROVE  /\ p \in DOMAIN WithPlaceholders(rec, F).placeholder_to_secret
         /\ WithPlaceholders(rec, F).placeholder_to_secret[p]
              = rec.placeholder_to_secret[p]
<1> DEFINE known == DOMAIN rec.secret_to_placeholder
           new == F \ known
           fresh == {MintFor(rec.hmac_key, f) : f \in new}
<1>1. p \notin fresh
  <2>1. PICK e \in known : p = MintFor(rec.hmac_key, e)
    BY DEF OwnMint
  <2>2. QED BY <2>1, MintInjective DEF MapsOK
<1>2. QED BY <1>1 DEF WithPlaceholders, Reverse

-----------------------------------------------------------------------------
(* The store's invariant. *)

\* The invariant holds in an empty store.
LEMMA StoreInitInv == StoreInit => StoreInv
BY BoundAssumption
   DEF StoreInit, StoreInv, StoreTypeOK, RecordOK, OwnMint, KeysDistinct, EmptyMap

\* What holds of the record with_session works on, before it masks anything.
LEMMA EntryRecord ==
  ASSUME StoreInv, NEW k \in Key, k \notin Unexpired => keys_drawn < MaxRecords
  PROVE  LET rec == EntryOrNew(k) IN
         /\ MapsOK(rec) /\ OwnMint(rec)
         /\ rec.last_used = now
         /\ rec.hmac_key = IF k \in Unexpired THEN sessions[k].hmac_key
                                              ELSE keys_drawn + 1
<1>1. CASE k \in Unexpired
  <2>1. /\ RecordOK(sessions[k]) /\ OwnMint(sessions[k])
        /\ sessions[k].hmac_key \in HmacKey
    BY <1>1, BoundAssumption
       DEF StoreInv, StoreTypeOK, Unexpired, RecordOK, HmacKey
  <2>2. /\ EntryOrNew(k).hmac_key = sessions[k].hmac_key
        /\ EntryOrNew(k).placeholder_to_secret = sessions[k].placeholder_to_secret
        /\ EntryOrNew(k).secret_to_placeholder = sessions[k].secret_to_placeholder
        /\ EntryOrNew(k).last_used = now
    BY <1>1, <2>1 DEF EntryOrNew, RecordOK
  <2>3. QED BY <1>1, <2>1, <2>2 DEF MapsOK, OwnMint, RecordOK
<1>2. CASE k \notin Unexpired
  <2>1. keys_drawn + 1 \in HmacKey
    BY <1>2, BoundAssumption DEF StoreInv, StoreTypeOK, HmacKey
  <2>2. EntryOrNew(k) = NewRecord(keys_drawn + 1)
    BY <1>2 DEF EntryOrNew
  <2>3. QED BY <1>2, <2>1, <2>2 DEF NewRecord, EmptyMap, MapsOK, OwnMint
<1>3. QED BY <1>1, <1>2

\* with_session keeps the invariant.
LEMMA WithSessionInv ==
  ASSUME StoreInv, NEW k \in Key, NEW F \in SUBSET Finding, WithSession(k, F)
  PROVE  StoreInv'
<1> DEFINE rec == EntryOrNew(k)
           out == WithPlaceholders(rec, F)
<1>1. /\ MapsOK(rec) /\ OwnMint(rec)
      /\ rec.last_used = now
      /\ rec.hmac_key = IF k \in Unexpired THEN sessions[k].hmac_key
                                           ELSE keys_drawn + 1
  BY EntryRecord DEF WithSession
<1>2. MapsOK(out) /\ OwnMint(out)
  BY <1>1, WithPlaceholdersMaps, WithPlaceholdersOwnMint
<1>3. /\ out = [hmac_key |-> out.hmac_key,
                placeholder_to_secret |-> out.placeholder_to_secret,
                secret_to_placeholder |-> out.secret_to_placeholder,
                last_used |-> out.last_used]
      /\ out.hmac_key = rec.hmac_key /\ out.last_used = now
  BY <1>1 DEF WithPlaceholders
<1>4. /\ DOMAIN sessions' = Unexpired \cup {k}
      /\ sessions' = [j \in DOMAIN sessions' |-> sessions'[j]]
      /\ sessions'[k] = out
      /\ \A j \in Unexpired : j # k => sessions'[j] = sessions[j]
      /\ Unexpired \subseteq DOMAIN sessions
      /\ now' = now
  BY DEF WithSession, Unexpired
<1>5. /\ keys_drawn' \in 0 .. MaxRecords
      /\ keys_drawn' >= keys_drawn
      /\ rec.hmac_key \in 1 .. keys_drawn'
  <2>1. k \in Unexpired => sessions[k].hmac_key \in 1 .. keys_drawn
    BY DEF StoreInv, StoreTypeOK, RecordOK, Unexpired
  <2>2. QED BY <1>1, <2>1, BoundAssumption DEF WithSession, StoreInv, StoreTypeOK
<1>6. (\A j \in DOMAIN sessions : RecordOK(sessions[j]))'
  <2> SUFFICES ASSUME NEW j \in DOMAIN sessions'
               PROVE  RecordOK(sessions[j])'
    OBVIOUS
  <2>1. CASE j = k
    BY <1>2, <1>3, <1>4, <1>5, <2>1 DEF RecordOK, MapsOK, StoreInv, StoreTypeOK
  <2>2. CASE j # k
    <3>1. RecordOK(sessions[j]) /\ sessions'[j] = sessions[j]
      BY <1>4, <2>2 DEF StoreInv, StoreTypeOK
    <3>2. 1 .. keys_drawn \subseteq 1 .. keys_drawn'
      BY <1>5 DEF StoreInv, StoreTypeOK
    <3>3. QED BY <1>4, <3>1, <3>2 DEF RecordOK
  <2>3. QED BY <2>1, <2>2
<1>7. StoreTypeOK'
  BY <1>4, <1>5, <1>6 DEF StoreInv, StoreTypeOK
<1>8. (\A j \in DOMAIN sessions : OwnMint(sessions[j]))'
  <2> SUFFICES ASSUME NEW j \in DOMAIN sessions'
               PROVE  OwnMint(sessions'[j])
    OBVIOUS
  <2>1. QED BY <1>2, <1>4 DEF StoreInv
<1>9. KeysDistinct'
  <2> SUFFICES ASSUME NEW i \in DOMAIN sessions', NEW j \in DOMAIN sessions',
                      sessions'[i].hmac_key = sessions'[j].hmac_key
               PROVE  i = j
    BY DEF KeysDistinct
  <2>1. CASE k \in Unexpired
    BY <1>1, <1>3, <1>4, <2>1 DEF StoreInv, KeysDistinct
  <2>2. CASE k \notin Unexpired
    <3>1. \A l \in Unexpired : sessions[l].hmac_key # keys_drawn + 1
      BY <1>4 DEF StoreInv, StoreTypeOK, RecordOK
    <3>2. QED BY <1>1, <1>3, <1>4, <2>2, <3>1 DEF StoreInv, KeysDistinct
  <2>3. QED BY <2>1, <2>2
<1>10. QED BY <1>7, <1>8, <1>9 DEF StoreInv

\* Sweeping, and restarting the idle clock of one record, keep the invariant.
LEMMA SweepInv ==
  ASSUME StoreInv, UNCHANGED <<now, keys_drawn>>,
         DOMAIN sessions' = Unexpired,
         sessions' = [j \in DOMAIN sessions' |-> sessions'[j]],
         \A j \in Unexpired :
            \/ sessions'[j] = sessions[j]
            \/ sessions'[j] = [sessions[j] EXCEPT !.last_used = now]
  PROVE  StoreInv'
<1>1. Unexpired \subseteq DOMAIN sessions
  BY DEF Unexpired
<1>2. ASSUME NEW j \in DOMAIN sessions'
      PROVE  /\ RecordOK(sessions[j])' /\ OwnMint(sessions'[j])
             /\ sessions'[j].hmac_key = sessions[j].hmac_key
  <2>1. RecordOK(sessions[j]) /\ OwnMint(sessions[j])
    BY <1>1 DEF StoreInv, StoreTypeOK
  <2>2. CASE sessions'[j] = sessions[j]
    BY <2>1, <2>2 DEF RecordOK
  <2>3. CASE sessions'[j] = [sessions[j] EXCEPT !.last_used = now]
    <3>1. /\ sessions'[j].hmac_key = sessions[j].hmac_key
          /\ sessions'[j].placeholder_to_secret = sessions[j].placeholder_to_secret
          /\ sessions'[j].secret_to_placeholder = sessions[j].secret_to_placeholder
          /\ sessions'[j].last_used = now
          /\ sessions'[j] = [hmac_key |-> sessions'[j].hmac_key,
                placeholder_to_secret |-> sessions'[j].placeholder_to_secret,
                secret_to_placeholder |-> sessions'[j].secret_to_placeholder,
                last_used |-> sessions'[j].last_used]
      BY <2>1, <2>3 DEF RecordOK
    <3>2. now \in 0 .. now
      BY BoundAssumption DEF StoreInv, StoreTypeOK
    <3>3. QED BY <2>1, <3>1, <3>2 DEF RecordOK, OwnMint
  <2>4. QED BY <2>2, <2>3
<1>3. StoreTypeOK'
  BY <1>1, <1>2 DEF StoreInv, StoreTypeOK
<1>4. KeysDistinct'
  BY <1>1, <1>2 DEF StoreInv, KeysDistinct
<1>5. QED BY <1>2, <1>3, <1>4 DEF StoreInv

\* Every operation of the store keeps the invariant.
LEMMA StoreStepInv == StoreInv /\ [StoreNext]_storeVars => StoreInv'
<1> SUFFICES ASSUME StoreInv, [StoreNext]_storeVars PROVE StoreInv'
  OBVIOUS
<1>1. ASSUME NEW k \in Key, NEW F \in SUBSET Finding, WithSession(k, F)
      PROVE  StoreInv'
  BY <1>1, WithSessionInv
<1>2. ASSUME NEW k \in Key, SnapshotHit(k) PROVE StoreInv'
  <2>1. /\ DOMAIN sessions' = Unexpired
        /\ sessions' = [j \in DOMAIN sessions' |-> sessions'[j]]
        /\ sessions'[k] = [sessions[k] EXCEPT !.last_used = now]
        /\ \A j \in Unexpired : j # k => sessions'[j] = sessions[j]
    BY <1>2 DEF SnapshotHit, evict_expired
  <2>2. QED BY <1>2, <2>1, SweepInv DEF SnapshotHit
<1>3. ASSUME NEW k \in Key, SnapshotMiss(k) PROVE StoreInv'
  BY <1>3, SweepInv DEF SnapshotMiss, evict_expired
<1>4. CASE Gauges
  BY <1>4, SweepInv DEF Gauges, evict_expired
<1>5. CASE Tick
  BY <1>5, BoundAssumption
     DEF Tick, StoreInv, StoreTypeOK, RecordOK, KeysDistinct
<1>6. CASE UNCHANGED storeVars
  BY <1>6 DEF storeVars, StoreInv, StoreTypeOK, RecordOK, KeysDistinct, OwnMint
<1>7. QED BY <1>1, <1>2, <1>3, <1>4, <1>5, <1>6 DEF StoreNext

\* It holds throughout every run of the store.
LEMMA StoreInvariant == StoreSpec => []StoreInv
BY StoreInitInv, StoreStepInv, PTL DEF StoreSpec

-----------------------------------------------------------------------------
(* Results. *)

\* The store's state always has the shape its types give it, and its bounds.
THEOREM StoreTypeCorrect == StoreSpec => []StoreTypeOK
<1>1. StoreInv => StoreTypeOK
  BY DEF StoreInv
<1>2. QED BY <1>1, StoreInvariant, PTL

\* The invariant makes the maps inverse.
LEMMA InvMapsAgree == StoreInv => MapsAgree
<1> SUFFICES ASSUME StoreInv, NEW k \in DOMAIN sessions
             PROVE  LET rec == sessions[k] IN
                    /\ \A f \in DOMAIN rec.secret_to_placeholder :
                         /\ rec.secret_to_placeholder[f] \in DOMAIN rec.placeholder_to_secret
                         /\ rec.placeholder_to_secret[rec.secret_to_placeholder[f]] = f.value
                    /\ \A p \in DOMAIN rec.placeholder_to_secret :
                         \E f \in DOMAIN rec.secret_to_placeholder :
                            rec.secret_to_placeholder[f] = p
  BY DEF MapsAgree
<1> DEFINE rec == sessions[k]
<1>1. /\ OwnMint(rec) /\ rec.hmac_key \in HmacKey
      /\ DOMAIN rec.secret_to_placeholder \subseteq Finding
  BY BoundAssumption DEF StoreInv, StoreTypeOK, RecordOK, HmacKey
<1>2. ASSUME NEW f \in DOMAIN rec.secret_to_placeholder
      PROVE  rec.placeholder_to_secret[rec.secret_to_placeholder[f]] = f.value
  <2>1. PICK e \in DOMAIN rec.secret_to_placeholder :
          /\ MintFor(rec.hmac_key, f) = MintFor(rec.hmac_key, e)
          /\ rec.placeholder_to_secret[MintFor(rec.hmac_key, f)] = e.value
    BY <1>1 DEF OwnMint
  <2>2. e = f
    BY <1>1, <2>1, MintInjective
  <2>3. QED BY <1>1, <2>1, <2>2 DEF OwnMint
<1>3. QED BY <1>1, <1>2 DEF OwnMint

\* The two maps of every record stay inverse of one another, whatever is masked
\* in whatever order and whatever expires.
THEOREM StoreMapsAgree == StoreSpec => []MapsAgree
BY StoreInvariant, InvMapsAgree, PTL

\* The invariant keeps sessions apart.
LEMMA InvSessionScoped == StoreInv => SessionScoped
<1> SUFFICES ASSUME StoreInv, NEW j \in DOMAIN sessions, NEW k \in DOMAIN sessions,
                    NEW p \in DOMAIN sessions[j].placeholder_to_secret,
                    p \in DOMAIN sessions[k].placeholder_to_secret
             PROVE  j = k
  BY DEF SessionScoped
<1>1. \A l \in DOMAIN sessions :
        /\ sessions[l].hmac_key \in HmacKey
        /\ DOMAIN sessions[l].secret_to_placeholder \subseteq Finding
        /\ \A q \in DOMAIN sessions[l].placeholder_to_secret :
             \E f \in Finding : q = MintFor(sessions[l].hmac_key, f)
  BY BoundAssumption DEF StoreInv, StoreTypeOK, RecordOK, HmacKey, OwnMint
<1>2. PICK e \in Finding : p = MintFor(sessions[j].hmac_key, e)
  BY <1>1
<1>3. PICK f \in Finding : p = MintFor(sessions[k].hmac_key, f)
  BY <1>1
<1>4. sessions[j].hmac_key = sessions[k].hmac_key
  BY <1>1, <1>2, <1>3, MintInjective
<1>5. QED BY <1>4 DEF StoreInv, KeysDistinct

\* No two live sessions ever share a placeholder.
THEOREM StoreSessionScoped == StoreSpec => []SessionScoped
BY StoreInvariant, InvSessionScoped, PTL

\* What one step keeps of a session still inside its TTL.
Remembers(k) ==
  /\ k \in DOMAIN sessions'
  /\ sessions'[k].hmac_key = sessions[k].hmac_key
  /\ \A p \in DOMAIN sessions[k].placeholder_to_secret :
       /\ p \in DOMAIN sessions'[k].placeholder_to_secret
       /\ sessions'[k].placeholder_to_secret[p] = sessions[k].placeholder_to_secret[p]

\* No operation drops a record in use.
LEMMA StepRemembers ==
  ASSUME StoreInv, [StoreNext]_storeVars, NEW k \in Unexpired
  PROVE  Remembers(k)
<1>1. k \in DOMAIN sessions /\ RecordOK(sessions[k]) /\ OwnMint(sessions[k])
  BY DEF Unexpired, StoreInv, StoreTypeOK
<1>2. ASSUME NEW j \in Key, NEW F \in SUBSET Finding, WithSession(j, F)
      PROVE  Remembers(k)
  <2>1. CASE j # k
    BY <1>2, <2>1 DEF WithSession, Remembers
  <2>2. CASE j = k
    <3> DEFINE rec == EntryOrNew(k)
    <3>1. MapsOK(rec) /\ OwnMint(rec)
      BY <1>2, <2>2, EntryRecord DEF WithSession
    <3>2. /\ rec.hmac_key = sessions[k].hmac_key
          /\ rec.placeholder_to_secret = sessions[k].placeholder_to_secret
      BY <1>1 DEF EntryOrNew, RecordOK
    <3>3. /\ k \in DOMAIN sessions'
          /\ sessions'[k] = WithPlaceholders(rec, F)
      BY <1>2, <2>2 DEF WithSession
    <3>4. sessions'[k].hmac_key = sessions[k].hmac_key
      BY <3>2, <3>3 DEF WithPlaceholders
    <3>5. QED BY <3>1, <3>2, <3>3, <3>4, WithPlaceholdersKeeps DEF Remembers
  <2>3. QED BY <2>1, <2>2
<1>3. ASSUME NEW j \in Key, SnapshotHit(j) PROVE Remembers(k)
  <2>1. /\ k \in DOMAIN sessions'
        /\ \/ sessions'[k] = sessions[k]
           \/ sessions'[k] = [sessions[k] EXCEPT !.last_used = now]
    BY <1>3 DEF SnapshotHit, evict_expired
  <2>2. QED BY <1>1, <2>1 DEF Remembers, RecordOK
<1>4. ASSUME NEW j \in Key, SnapshotMiss(j) PROVE Remembers(k)
  BY <1>4 DEF SnapshotMiss, evict_expired, Remembers
<1>5. CASE Gauges
  BY <1>5 DEF Gauges, evict_expired, Remembers
<1>6. CASE Tick \/ UNCHANGED storeVars
  BY <1>1, <1>6 DEF Tick, storeVars, Remembers
<1>7. QED BY <1>2, <1>3, <1>4, <1>5, <1>6 DEF StoreNext

\* An active session is never dropped, re-keyed or made to forget, by any
\* operation on any key.
THEOREM StoreRemembers == StoreSpec => ActiveSessionRemembers
<1>1. StoreInv /\ [StoreNext]_storeVars =>
        [\A k \in DOMAIN sessions :
           now - sessions[k].last_used < Ttl => Remembers(k)]_storeVars
  BY StepRemembers DEF Unexpired
<1>2. QED BY <1>1, StoreInvariant, PTL DEF StoreSpec, ActiveSessionRemembers, Remembers

-----------------------------------------------------------------------------
(* The engine.                                                             *)

\* A request that was not received has left no trace; one that was has a key.
PhasesOK ==
  \A r \in Request :
    /\ phase[r] = "idle" => /\ found[r] = {} /\ minted[r] = {}
                            /\ map[r] = EmptyMap
                            /\ restored[r] = {} /\ unrestored[r] = {}
    /\ phase[r] # "idle" => session_key[r] \in Key

EngineInv == StoreInv /\ RequestsOK /\ PhasesOK

-----------------------------------------------------------------------------
(* The engine touches the session store only through its operations. *)

\* The engine starts with an empty store.
LEMMA EngineInitStore == Init => StoreInit
BY DEF Init

\* Every step of the engine is one store operation or leaves the store alone.
LEMMA EngineStepStore ==
  ASSUME PhasesOK, [Next]_vars PROVE [StoreNext]_storeVars
<1>1. ASSUME NEW r \in Request, NEW k \in Key, NEW F \in SUBSET Finding,
             NEW rest, Scrub(r, k, F, rest)
      PROVE  StoreNext
  BY <1>1 DEF Scrub, StoreNext
<1>2. ASSUME NEW r \in Request, NEW k \in Key, NEW F \in SUBSET Finding,
             ScrubFails(r, k, F)
      PROVE  StoreNext
  BY <1>2 DEF ScrubFails, StoreNext
<1>3. ASSUME NEW r \in Request, RecordAndRoute(r) \/ Answer(r) \/ GiveUp(r) \/ Finish(r)
      PROVE  UNCHANGED storeVars
  BY <1>3 DEF RecordAndRoute, Answer, GiveUp, Finish
<1>4. ASSUME NEW r \in Request, NEW p, Deliver(r, p)
      PROVE  UNCHANGED storeVars
  BY <1>4 DEF Deliver
<1>5. ASSUME NEW r \in Request, Restore(r) \/ RestoreMiss(r)
      PROVE  StoreNext
  <2>1. session_key[r] \in Key
    BY <1>5 DEF Restore, RestoreMiss, PhasesOK
  <2>2. QED BY <1>5, <2>1 DEF Restore, RestoreMiss, StoreNext
<1>6. CASE ReadGauges
  BY <1>6 DEF ReadGauges, StoreNext
<1>7. CASE ReadTotals
  BY <1>7 DEF ReadTotals
<1>8. CASE ClockTick
  BY <1>8 DEF ClockTick, StoreNext
<1>9. CASE UNCHANGED vars
  BY <1>9 DEF vars
<1>10. QED
  BY <1>1, <1>2, <1>3, <1>4, <1>5, <1>6, <1>7, <1>8, <1>9 DEF Next, Findings

\* The clock does not run backwards.
LEMMA ClockForward ==
  ASSUME StoreInv, [StoreNext]_storeVars PROVE now' \in Nat /\ now' >= now
<1>1. now \in Nat
  BY BoundAssumption DEF StoreInv, StoreTypeOK
<1>2. now' = now \/ now' = now + 1
  <2>1. ASSUME NEW k \in Key, NEW F \in SUBSET Finding, WithSession(k, F)
        PROVE  now' = now
    BY <2>1 DEF WithSession
  <2>2. ASSUME NEW k \in Key, SnapshotHit(k) \/ SnapshotMiss(k)
        PROVE  now' = now
    BY <2>2 DEF SnapshotHit, SnapshotMiss
  <2>3. QED BY <2>1, <2>2 DEF StoreNext, Gauges, Tick, storeVars
<1>3. QED BY <1>1, <1>2

\* What the record holds once with_session has masked F.
LEMMA WithSessionMasks ==
  ASSUME StoreInv, NEW k \in Key, NEW F \in SUBSET Finding, WithSession(k, F)
  PROVE  /\ k \in DOMAIN sessions'
         /\ OwnMint(sessions'[k])
         /\ sessions'[k].hmac_key \in HmacKey
         /\ sessions'[k].last_used = now
         /\ F \subseteq DOMAIN sessions'[k].secret_to_placeholder
         /\ sessions'[k].secret_to_placeholder
              \in [DOMAIN sessions'[k].secret_to_placeholder -> Placeholder]
<1>1. StoreInv'
  BY WithSessionInv
<1>2. /\ k \in DOMAIN sessions'
      /\ sessions'[k] = WithPlaceholders(EntryOrNew(k), F)
  BY DEF WithSession
<1>3. EntryOrNew(k).last_used = now
  BY EntryRecord DEF WithSession
<1>4. /\ sessions'[k].last_used = now
      /\ F \subseteq DOMAIN sessions'[k].secret_to_placeholder
  BY <1>2, <1>3 DEF WithPlaceholders, Forward
<1>5. OwnMint(sessions'[k]) /\ RecordOK(sessions[k])'
  BY <1>1, <1>2 DEF StoreInv, StoreTypeOK
<1>6. keys_drawn' \in 0 .. MaxRecords
  BY <1>1 DEF StoreInv, StoreTypeOK
<1>7. QED BY <1>2, <1>4, <1>5, <1>6, BoundAssumption DEF RecordOK, HmacKey

\* The placeholders a scrub writes are placeholders of its session's record.
LEMMA ScrubMints ==
  ASSUME EngineInv, NEW r \in Request, NEW k \in Key, NEW F \in SUBSET Finding,
         WithSession(k, F),
         minted' = [minted EXCEPT ![r] =
                      {sessions'[k].secret_to_placeholder[f] : f \in F}]
  PROVE  /\ minted'[r] = {sessions'[k].secret_to_placeholder[f] : f \in F}
         /\ minted'[r] \subseteq Placeholder
         /\ minted'[r] \subseteq DOMAIN sessions'[k].placeholder_to_secret
<1>1. minted'[r] = {sessions'[k].secret_to_placeholder[f] : f \in F}
  BY DEF EngineInv, RequestsOK
<1>2. QED BY <1>1, WithSessionMasks DEF EngineInv, OwnMint

-----------------------------------------------------------------------------
(* The requests' state is well formed. *)

\* The engine's invariant holds before any request.
LEMMA EngineInitInv == Init => EngineInv
<1> SUFFICES ASSUME Init PROVE EngineInv
  OBVIOUS
<1>1. StoreInv
  BY EngineInitStore, StoreInitInv
<1>2. RequestsOK
  BY KeyAssumption DEF Init, StoreInit, RequestsOK, Phase, EmptyMap
<1>3. PhasesOK
  BY DEF Init, PhasesOK
<1>4. QED BY <1>1, <1>2, <1>3 DEF EngineInv

\* A scrub, whether the request then goes on or fails.
LEMMA ScrubInv ==
  ASSUME EngineInv, NEW r \in Request, NEW k \in Key, NEW F \in SUBSET Finding,
         phase[r] = "idle", SessionKeyFor(k), WithSession(k, F),
         NEW ph \in {"masked", "failed"},
         phase' = [phase EXCEPT ![r] = ph],
         session_key' = [session_key EXCEPT ![r] = k],
         found' = [found EXCEPT ![r] = F],
         minted' = [minted EXCEPT ![r] =
                      {sessions'[k].secret_to_placeholder[f] : f \in F}],
         carried' \in [Request -> SUBSET (Placeholder \cup HighEntropy)],
         masked_at' = masked_at \/ masked_at' = [masked_at EXCEPT ![r] = now],
         UNCHANGED <<route, map, restored_at, restored, unrestored>>
  PROVE  RequestsOK' /\ PhasesOK'
<1>1. now' = now /\ now \in Nat
  BY BoundAssumption DEF WithSession, EngineInv, StoreInv, StoreTypeOK
<1>2. anon_session' \in 1 .. MaxAnon + 1
  BY KeyAssumption DEF SessionKeyFor, EngineInv, RequestsOK
<1>3. minted' \in [Request -> SUBSET Placeholder]
  BY ScrubMints DEF EngineInv, RequestsOK
<1>4. /\ phase' \in [Request -> Phase]
      /\ session_key' \in [Request -> Key \cup {NoKey}]
      /\ found' \in [Request -> SUBSET Finding]
  BY DEF EngineInv, RequestsOK, Phase
<1>5. masked_at' \in [Request -> 0 .. now]
  BY <1>1 DEF EngineInv, RequestsOK
<1>6. RequestsOK'
  BY <1>1, <1>2, <1>3, <1>4, <1>5 DEF EngineInv, RequestsOK
<1>7. PhasesOK'
  <2> SUFFICES ASSUME NEW q \in Request
               PROVE  /\ phase'[q] = "idle" => /\ found'[q] = {} /\ minted'[q] = {}
                                               /\ map'[q] = EmptyMap
                                               /\ restored'[q] = {} /\ unrestored'[q] = {}
                      /\ phase'[q] # "idle" => session_key'[q] \in Key
    BY DEF PhasesOK
  <2>1. CASE q = r
    BY <2>1 DEF EngineInv, RequestsOK
  <2>2. CASE q # r
    BY <2>2 DEF EngineInv, RequestsOK, PhasesOK
  <2>3. QED BY <2>1, <2>2
<1>8. QED BY <1>6, <1>7

\* A request that was received keeps its key, its findings and its placeholders.
LEMMA ReceivedKept ==
  ASSUME EngineInv, [Next]_vars, NEW q \in Request, phase[q] # "idle"
  PROVE  /\ phase'[q] # "idle"
         /\ session_key'[q] = session_key[q]
         /\ found'[q] = found[q]
         /\ minted'[q] = minted[q]
         /\ masked_at'[q] = masked_at[q]
<1> DEFINE Kept == /\ phase'[q] # "idle"
                   /\ session_key'[q] = session_key[q]
                   /\ found'[q] = found[q]
                   /\ minted'[q] = minted[q]
                   /\ masked_at'[q] = masked_at[q]
<1> USE DEF EngineInv, RequestsOK
<1>1. ASSUME NEW r \in Request, NEW k \in Key, NEW F \in SUBSET Finding,
             (\E rest : Scrub(r, k, F, rest)) \/ ScrubFails(r, k, F)
      PROVE  Kept
  BY <1>1 DEF Scrub, ScrubFails
<1>2. ASSUME NEW r \in Request, RecordAndRoute(r) \/ Answer(r) \/ GiveUp(r) \/ Finish(r)
      PROVE  Kept
  BY <1>2 DEF RecordAndRoute, Answer, GiveUp, Finish
<1>3. ASSUME NEW r \in Request, Restore(r) \/ RestoreMiss(r)
      PROVE  Kept
  BY <1>3 DEF Restore, RestoreMiss
<1>4. ASSUME NEW r \in Request, NEW p, Deliver(r, p)
      PROVE  Kept
  BY <1>4 DEF Deliver
<1>5. CASE ReadGauges \/ ReadTotals \/ ClockTick \/ UNCHANGED vars
  BY <1>5 DEF ReadGauges, ReadTotals, ClockTick, requestVars, vars
<1>6. QED BY <1>1, <1>2, <1>3, <1>4, <1>5 DEF Next, Findings

\* Every step of the engine keeps its invariant.
LEMMA EngineStepInv == EngineInv /\ [Next]_vars => EngineInv'
<1> SUFFICES ASSUME EngineInv, [Next]_vars PROVE EngineInv'
  OBVIOUS
<1> DEFINE Goal == RequestsOK' /\ PhasesOK'
<1>1. StoreInv'
  BY EngineStepStore, StoreStepInv DEF EngineInv
<1>2. now' \in Nat /\ now' >= now /\ now \in Nat
  BY EngineStepStore, ClockForward, BoundAssumption
     DEF EngineInv, StoreInv, StoreTypeOK
<1>3. ASSUME NEW r \in Request, NEW k \in Key, NEW F \in SUBSET Finding,
             NEW old \in Repeatable, NEW X \in SUBSET HighEntropy,
             Scrub(r, k, F, old \cup X)
      PROVE  Goal
  <2>1. old \subseteq Placeholder
    BY DEF Repeatable, EngineInv, RequestsOK
  <2>2. carried' \in [Request -> SUBSET (Placeholder \cup HighEntropy)]
    BY <1>3, <2>1 DEF Scrub, EngineInv, RequestsOK
  <2>3. QED BY <1>3, <2>2, ScrubInv DEF Scrub
<1>4. ASSUME NEW r \in Request, NEW k \in Key, NEW F \in SUBSET Finding,
             ScrubFails(r, k, F)
      PROVE  Goal
  <2>1. carried' \in [Request -> SUBSET (Placeholder \cup HighEntropy)]
    BY <1>4 DEF ScrubFails, EngineInv, RequestsOK
  <2>2. QED BY <1>4, <2>1, ScrubInv DEF ScrubFails
<1> USE DEF EngineInv, RequestsOK, PhasesOK
<1>5. ASSUME NEW r \in Request, RecordAndRoute(r) PROVE Goal
  BY <1>5, <1>2 DEF RecordAndRoute, storeVars, Phase
<1>6. ASSUME NEW r \in Request, Answer(r) \/ GiveUp(r) PROVE Goal
  BY <1>6, <1>2 DEF Answer, GiveUp, storeVars, Phase
<1>7. ASSUME NEW r \in Request, Restore(r) PROVE Goal
  <2>1. /\ restore_map(session_key[r]) \in [DOMAIN restore_map(session_key[r]) -> Value]
        /\ DOMAIN restore_map(session_key[r]) \subseteq Placeholder
    BY <1>7 DEF Restore, SnapshotHit, Unexpired, restore_map, StoreInv,
                StoreTypeOK, RecordOK
  <2>2. now' = now
    BY <1>7 DEF Restore, SnapshotHit
  <2>3. QED BY <1>7, <1>2, <2>1, <2>2 DEF Restore, Phase
<1>8. ASSUME NEW r \in Request, RestoreMiss(r) PROVE Goal
  BY <1>8, <1>2 DEF RestoreMiss, SnapshotMiss, Phase
<1>9. ASSUME NEW r \in Request, NEW p \in Upstream \cap Placeholder, Deliver(r, p)
      PROVE  Goal
  <2>1. restored' \in [Request -> SUBSET (Placeholder \X Value)]
    BY <1>9 DEF Deliver
  <2>2. unrestored' \in [Request -> SUBSET Placeholder]
    BY <1>9 DEF Deliver
  <2>3. \A q \in Request : q # r => restored'[q] = restored[q] /\ unrestored'[q] = unrestored[q]
    BY <1>9 DEF Deliver
  <2>4. QED BY <1>9, <1>2, <2>1, <2>2, <2>3 DEF Deliver, storeVars
<1>10. ASSUME NEW r \in Request, Finish(r) PROVE Goal
  BY <1>10, <1>2 DEF Finish, storeVars, Phase, EmptyMap
<1>11. ASSUME ReadGauges \/ ReadTotals \/ ClockTick \/ UNCHANGED vars PROVE Goal
  <2>1. UNCHANGED <<anon_session, requestVars>>
    BY <1>11 DEF ReadGauges, ReadTotals, ClockTick, vars
  <2>2. QED BY <1>2, <2>1 DEF requestVars
<1> HIDE DEF EngineInv, RequestsOK, PhasesOK
<1>12. QED
  BY <1>1, <1>3, <1>4, <1>5, <1>6, <1>7, <1>8, <1>9, <1>10, <1>11
  DEF Next, Findings, EngineInv

\* It holds throughout every run of the engine.
LEMMA EngineInvariant == Spec => []EngineInv
BY EngineInitInv, EngineStepInv, PTL DEF Spec

\* The engine implements the session store's own specification: whatever
\* requests interleave, the store only ever sees whole store operations, so
\* every theorem about SessionStore holds of it inside the engine.
THEOREM EngineUsesStore == Spec => StoreSpec
<1>1. EngineInv /\ [Next]_vars => [StoreNext]_storeVars
  BY EngineStepStore DEF EngineInv
<1>2. QED BY EngineInitStore, EngineInvariant, <1>1, PTL DEF Spec, StoreSpec

-----------------------------------------------------------------------------
(* Whose secrets go where. *)

\* Some request of session k carried v, and p is what was written in its place.
Owns(k, p, v) ==
  \E q \in Request : \E f \in found[q] :
    /\ session_key[q] = k
    /\ p \in minted[q]
    /\ \E h \in HmacKey : p = MintFor(h, f)
    /\ v = f.value

\* RestoredToOwner, and the two places a restored secret comes from: the live
\* records and the maps cloned from them.
StoreOwned ==
  \A k \in DOMAIN sessions : \A p \in DOMAIN sessions[k].placeholder_to_secret :
    Owns(k, p, sessions[k].placeholder_to_secret[p])
MapOwned ==
  \A r \in Request : \A p \in DOMAIN map[r] : Owns(session_key[r], p, map[r][p])
OwnInv == StoreOwned /\ MapOwned /\ RestoredToOwner

\* What a session owns it owns for good: the request that shows it was
\* received, and no step changes what it brought.
LEMMA OwnsKept ==
  ASSUME EngineInv, [Next]_vars, NEW k, NEW p, NEW v, Owns(k, p, v)
  PROVE  Owns(k, p, v)'
<1>1. PICK q \in Request : \E f \in found[q] :
        /\ session_key[q] = k
        /\ p \in minted[q]
        /\ \E h \in HmacKey : p = MintFor(h, f)
        /\ v = f.value
  BY DEF Owns
<1>2. phase[q] # "idle"
  BY <1>1 DEF EngineInv, PhasesOK
<1>3. QED BY <1>1, <1>2, ReceivedKept DEF Owns

\* A scrub mints only for its own session's findings.
LEMMA ScrubOwned ==
  ASSUME EngineInv, StoreOwned, [Next]_vars,
         NEW r \in Request, NEW k \in Key, NEW F \in SUBSET Finding,
         WithSession(k, F),
         session_key' = [session_key EXCEPT ![r] = k],
         found' = [found EXCEPT ![r] = F],
         minted' = [minted EXCEPT ![r] =
                      {sessions'[k].secret_to_placeholder[f] : f \in F}]
  PROVE  StoreOwned'
<1> DEFINE rec == EntryOrNew(k)
           new == F \ DOMAIN rec.secret_to_placeholder
<1> SUFFICES ASSUME NEW j \in DOMAIN sessions',
                    NEW p \in DOMAIN sessions'[j].placeholder_to_secret,
                    NEW v, v = sessions'[j].placeholder_to_secret[p]
             PROVE  Owns(j, p, v)'
  BY DEF StoreOwned, Owns
<1>1. CASE j # k
  <2>1. j \in DOMAIN sessions /\ sessions'[j] = sessions[j]
    BY <1>1 DEF WithSession, Unexpired
  <2>2. Owns(j, p, v)
    BY <2>1 DEF StoreOwned
  <2>3. QED BY <2>1, <2>2, OwnsKept
<1>2. CASE j = k
  <2>1. /\ MapsOK(rec)
        /\ sessions'[k] = WithPlaceholders(rec, F)
        /\ sessions'[k].placeholder_to_secret = Reverse(rec, F)
        /\ sessions'[k].secret_to_placeholder = Forward(rec, F)
    BY EntryRecord DEF WithSession, WithPlaceholders, EngineInv
  <2>2. CASE p \in {MintFor(rec.hmac_key, f) : f \in new}
    <3>1. PICK f \in new : p = MintFor(rec.hmac_key, f)
      BY <2>2
    <3>2. v = f.value
      <4>1. (CHOOSE e \in new : MintFor(rec.hmac_key, e) = p) = f
        BY <2>1, <3>1, FreshSecret DEF MapsOK
      <4>2. QED BY <2>1, <2>2, <4>1, <1>2 DEF Reverse
    <3>3. sessions'[k].secret_to_placeholder[f] = p
      BY <2>1, <3>1 DEF Forward
    <3>4. p \in minted'[r] /\ f \in found'[r] /\ session_key'[r] = k
      BY <3>3 DEF EngineInv, RequestsOK
    <3>5. QED BY <1>2, <2>1, <3>1, <3>2, <3>4 DEF Owns, MapsOK
  <2>3. CASE p \notin {MintFor(rec.hmac_key, f) : f \in new}
    <3>1. /\ p \in DOMAIN rec.placeholder_to_secret
          /\ v = rec.placeholder_to_secret[p]
      BY <1>2, <2>1, <2>3 DEF Reverse
    <3>2. k \in Unexpired
      BY <3>1 DEF EntryOrNew, NewRecord, EmptyMap
    <3>3. /\ k \in DOMAIN sessions
          /\ rec.placeholder_to_secret = sessions[k].placeholder_to_secret
      BY <3>2 DEF Unexpired, EntryOrNew, EngineInv, StoreInv, StoreTypeOK, RecordOK
    <3>4. Owns(k, p, v)
      BY <3>1, <3>3 DEF StoreOwned
    <3>5. QED BY <1>2, <3>1, <3>3, <3>4, OwnsKept
  <2>4. QED BY <2>2, <2>3
<1>3. QED BY <1>1, <1>2

\* Every other store operation only drops records or restarts their clocks.
LEMMA SweepOwned ==
  ASSUME EngineInv, StoreOwned, [Next]_vars,
         \A k \in DOMAIN sessions' :
            /\ k \in DOMAIN sessions
            /\ sessions'[k].placeholder_to_secret = sessions[k].placeholder_to_secret
  PROVE  StoreOwned'
<1> SUFFICES ASSUME NEW k \in DOMAIN sessions',
                    NEW p \in DOMAIN sessions'[k].placeholder_to_secret,
                    NEW v, v = sessions'[k].placeholder_to_secret[p]
             PROVE  Owns(k, p, v)'
  BY DEF StoreOwned, Owns
<1>1. Owns(k, p, v)
  BY DEF StoreOwned
<1>2. QED BY <1>1, OwnsKept

\* Ownership of what can be rendered survives every step.
LEMMA OwnStep ==
  ASSUME EngineInv, OwnInv, [Next]_vars PROVE OwnInv'
<1> DEFINE Sweeps == \A k \in DOMAIN sessions' :
              /\ k \in DOMAIN sessions
              /\ sessions'[k].placeholder_to_secret = sessions[k].placeholder_to_secret
           MapsKept == \A r \in Request : \A p \in DOMAIN map'[r] :
              p \in DOMAIN map[r] /\ map'[r][p] = map[r][p] /\ phase[r] # "idle"
           \* Nothing is restored that a map of the request does not hold.
           Mapped == \A r \in Request : \A s \in restored'[r] :
              \/ s \in restored[r]
              \/ s[1] \in DOMAIN map[r] /\ s[2] = map[r][s[1]]
<1>1. MapsKept => MapOwned'
  <2> SUFFICES ASSUME MapsKept, NEW r \in Request, NEW p \in DOMAIN map'[r],
                      NEW v, v = map'[r][p], NEW k, k = session_key'[r]
               PROVE  Owns(k, p, v)'
    BY DEF MapOwned, Owns
  <2>1. k = session_key[r]
    BY ReceivedKept
  <2>2. Owns(k, p, v)
    BY <2>1 DEF OwnInv, MapOwned
  <2>3. QED BY <2>2, OwnsKept
<1>2. Mapped => RestoredToOwner'
  <2> SUFFICES ASSUME Mapped, NEW r \in Request, NEW s \in restored'[r],
                      NEW p, p = s[1], NEW v, v = s[2], NEW k, k = session_key'[r]
               PROVE  Owns(k, p, v)'
    BY DEF RestoredToOwner, Owns
  <2>1. phase[r] # "idle"
    BY DEF EngineInv, PhasesOK, EmptyMap
  <2>2. k = session_key[r]
    BY <2>1, ReceivedKept
  <2>3. CASE s \in restored[r]
    <3>1. Owns(k, p, v)
      BY <2>2, <2>3 DEF OwnInv, RestoredToOwner, Owns
    <3>2. QED BY <3>1, OwnsKept
  <2>4. CASE s \notin restored[r]
    <3>1. Owns(k, p, v)
      BY <2>2, <2>4 DEF OwnInv, MapOwned
    <3>2. QED BY <3>1, OwnsKept
  <2>5. QED BY <2>3, <2>4
<1>3. UNCHANGED restored => Mapped
  OBVIOUS
<1>4. UNCHANGED map => MapsKept
  BY DEF EngineInv, PhasesOK, EmptyMap
<1>5. Sweeps => StoreOwned'
  BY SweepOwned DEF OwnInv
<1>6. UNCHANGED sessions => Sweeps
  OBVIOUS
<1>7. ASSUME NEW r \in Request, NEW k \in Key, NEW F \in SUBSET Finding,
             (\E rest : Scrub(r, k, F, rest)) \/ ScrubFails(r, k, F)
      PROVE  OwnInv'
  <2>1. StoreOwned'
    BY <1>7, ScrubOwned DEF Scrub, ScrubFails, OwnInv
  <2>2. UNCHANGED <<map, restored>>
    BY <1>7 DEF Scrub, ScrubFails
  <2>3. QED BY <1>1, <1>2, <1>3, <1>4, <2>1, <2>2 DEF OwnInv
<1>8. ASSUME NEW r \in Request, RecordAndRoute(r) \/ Answer(r) \/ GiveUp(r)
      PROVE  OwnInv'
  <2>1. UNCHANGED <<sessions, map, restored>>
    BY <1>8 DEF RecordAndRoute, Answer, GiveUp, storeVars
  <2>2. QED BY <1>1, <1>2, <1>3, <1>4, <1>5, <1>6, <2>1 DEF OwnInv
<1>9. ASSUME NEW r \in Request, Restore(r)
      PROVE  OwnInv'
  <2>1. Sweeps
    BY <1>9 DEF Restore, SnapshotHit, Unexpired, evict_expired, EngineInv,
                StoreInv, StoreTypeOK, RecordOK
  <2>2. MapOwned'
    <3> SUFFICES ASSUME NEW q \in Request, NEW p \in DOMAIN map'[q],
                        NEW v, v = map'[q][p], NEW k, k = session_key'[q]
                 PROVE  Owns(k, p, v)'
      BY DEF MapOwned, Owns
    <3>1. k = session_key[q]
      BY <1>9 DEF Restore
    <3>2. CASE q = r
      <4>1. /\ k \in DOMAIN sessions
            /\ map'[q] = sessions[k].placeholder_to_secret
        BY <1>9, <3>1, <3>2
           DEF Restore, SnapshotHit, Unexpired, restore_map, EngineInv, RequestsOK
      <4>2. Owns(k, p, v)
        BY <4>1 DEF OwnInv, StoreOwned
      <4>3. QED BY <4>2, OwnsKept
    <3>3. CASE q # r
      <4>1. map'[q] = map[q]
        BY <1>9, <3>3 DEF Restore, EngineInv, RequestsOK
      <4>2. Owns(k, p, v)
        BY <3>1, <4>1 DEF OwnInv, MapOwned
      <4>3. QED BY <4>2, OwnsKept
    <3>4. QED BY <3>2, <3>3
  <2>3. UNCHANGED restored
    BY <1>9 DEF Restore
  <2>4. QED BY <1>2, <1>3, <1>5, <2>1, <2>2, <2>3 DEF OwnInv
<1>10. ASSUME NEW r \in Request, RestoreMiss(r)
       PROVE  OwnInv'
  <2>1. Sweeps /\ UNCHANGED <<map, restored>>
    BY <1>10 DEF RestoreMiss, SnapshotMiss, Unexpired, evict_expired
  <2>2. QED BY <1>1, <1>2, <1>3, <1>4, <1>5, <2>1 DEF OwnInv
<1>11. ASSUME NEW r \in Request, NEW p, Deliver(r, p)
       PROVE  OwnInv'
  <2>1. UNCHANGED <<sessions, map>>
    BY <1>11 DEF Deliver, storeVars
  <2>2. Mapped
    BY <1>11 DEF Deliver, EngineInv, RequestsOK
  <2>3. QED BY <1>1, <1>2, <1>4, <1>5, <1>6, <2>1, <2>2 DEF OwnInv
<1>12. ASSUME NEW r \in Request, Finish(r)
       PROVE  OwnInv'
  <2>1. UNCHANGED <<sessions, restored>>
    BY <1>12 DEF Finish, storeVars
  <2>2. \A q \in Request : map'[q] = map[q] \/ map'[q] = EmptyMap
    BY <1>12 DEF Finish, EngineInv, RequestsOK
  <2>3. MapsKept
    BY <2>2 DEF EngineInv, PhasesOK, EmptyMap
  <2>4. QED BY <1>1, <1>2, <1>3, <1>5, <1>6, <2>1, <2>3 DEF OwnInv
<1>13. ASSUME ReadGauges \/ ReadTotals \/ ClockTick \/ UNCHANGED vars
       PROVE  OwnInv'
  <2>1. UNCHANGED <<map, restored>>
    BY <1>13 DEF ReadGauges, ReadTotals, ClockTick, requestVars, vars
  <2>2. Sweeps
    BY <1>13 DEF ReadGauges, Gauges, Unexpired, evict_expired, ReadTotals,
                 ClockTick, Tick, storeVars, vars
  <2>3. QED BY <1>1, <1>2, <1>3, <1>4, <1>5, <2>1, <2>2 DEF OwnInv
<1>14. QED
  BY <1>7, <1>8, <1>9, <1>10, <1>11, <1>12, <1>13 DEF Next, Findings

\* A secret only ever reaches a client in a response of the session it was sent
\* in, in place of its own placeholder, however requests interleave and
\* whatever placeholders a model repeats.
THEOREM EngineRestoredToOwner == Spec => []RestoredToOwner
<1>1. Init => OwnInv
  BY DEF Init, StoreInit, EmptyMap, OwnInv, StoreOwned, MapOwned, RestoredToOwner
<1>2. EngineInv /\ OwnInv /\ [Next]_vars => OwnInv'
  BY OwnStep
<1>3. OwnInv => RestoredToOwner
  BY DEF OwnInv
<1>4. QED BY EngineInvariant, <1>1, <1>2, <1>3, PTL DEF Spec

-----------------------------------------------------------------------------
(* Prompt answers are restored in full. *)

\* Until its response is read, the session of a request scrubbed less than the
\* TTL ago is live, in use since, and holds all its placeholders.
HeldWhilePrompt ==
  \A r \in Request :
    /\ phase[r] \in {"masked", "routed", "answered"}
    /\ now - masked_at[r] < Ttl
    => /\ session_key[r] \in DOMAIN sessions
       /\ sessions[session_key[r]].last_used >= masked_at[r]
       /\ minted[r] \subseteq DOMAIN sessions[session_key[r]].placeholder_to_secret

\* So the map its response is read through holds them all; and before that the
\* client has seen nothing.
PromptInv ==
  /\ HeldWhilePrompt
  /\ \A r \in Request :
       /\ phase[r] \in {"restoring", "missed"} /\ restored_at[r] - masked_at[r] < Ttl
            => phase[r] = "restoring" /\ minted[r] \subseteq DOMAIN map[r]
       /\ phase[r] \notin {"restoring", "missed", "done"} => unrestored[r] = {}
  /\ PromptAnswerRestored

\* A step never turns back the idle clock of a session inside its TTL.
LEMMA StepRefreshes ==
  ASSUME StoreInv, [StoreNext]_storeVars, NEW k \in Unexpired
  PROVE  k \in DOMAIN sessions' /\ sessions'[k].last_used >= sessions[k].last_used
<1>1. /\ k \in DOMAIN sessions /\ RecordOK(sessions[k])
      /\ sessions[k].last_used \in Int /\ now \in Int /\ sessions[k].last_used <= now
  BY BoundAssumption DEF Unexpired, StoreInv, StoreTypeOK, RecordOK
<1>2. ASSUME NEW j \in Key, NEW F \in SUBSET Finding, WithSession(j, F)
      PROVE  k \in DOMAIN sessions' /\ sessions'[k].last_used >= sessions[k].last_used
  <2>1. CASE j = k
    BY <1>1, <1>2, <2>1, WithSessionMasks
  <2>2. CASE j # k
    BY <1>1, <1>2, <2>2 DEF WithSession
  <2>3. QED BY <2>1, <2>2
<1>3. ASSUME NEW j \in Key, SnapshotHit(j)
      PROVE  k \in DOMAIN sessions' /\ sessions'[k].last_used >= sessions[k].last_used
  <2>1. /\ k \in DOMAIN sessions'
        /\ \/ sessions'[k] = sessions[k]
           \/ sessions'[k] = [sessions[k] EXCEPT !.last_used = now]
    BY <1>3 DEF SnapshotHit, evict_expired
  <2>2. QED BY <1>1, <2>1 DEF RecordOK
<1>4. ASSUME NEW j \in Key, SnapshotMiss(j)
      PROVE  k \in DOMAIN sessions' /\ sessions'[k].last_used >= sessions[k].last_used
  BY <1>1, <1>4 DEF SnapshotMiss, evict_expired
<1>5. CASE Gauges
  BY <1>1, <1>5 DEF Gauges, evict_expired
<1>6. CASE Tick \/ UNCHANGED storeVars
  BY <1>1, <1>6 DEF Tick, storeVars
<1>7. QED BY <1>2, <1>3, <1>4, <1>5, <1>6 DEF StoreNext

\* The session of a prompt request is inside its TTL.
LEMMA PromptUnexpired ==
  ASSUME EngineInv, HeldWhilePrompt, NEW r \in Request,
         phase[r] \in {"masked", "routed", "answered"},
         now - masked_at[r] < Ttl
  PROVE  session_key[r] \in Unexpired
<1>1. /\ session_key[r] \in DOMAIN sessions
      /\ sessions[session_key[r]].last_used >= masked_at[r]
  BY DEF HeldWhilePrompt
<1>2. sessions[session_key[r]].last_used \in Int /\ now \in Int /\ masked_at[r] \in Int
  BY <1>1, BoundAssumption DEF EngineInv, StoreInv, StoreTypeOK, RecordOK, RequestsOK
<1>3. QED BY <1>1, <1>2, TtlAssumption DEF Unexpired

\* A request that was received before a step is still held after it.
LEMMA HeldKept ==
  ASSUME EngineInv, HeldWhilePrompt, [Next]_vars, NEW r \in Request,
         phase[r] \in {"masked", "routed", "answered"},
         now' - masked_at'[r] < Ttl
  PROVE  /\ session_key'[r] \in DOMAIN sessions'
         /\ sessions'[session_key'[r]].last_used >= masked_at'[r]
         /\ minted'[r] \subseteq DOMAIN sessions'[session_key'[r]].placeholder_to_secret
<1>0. PICK k : k = session_key[r]
  OBVIOUS
<1>1. /\ session_key'[r] = k /\ minted'[r] = minted[r]
      /\ masked_at'[r] = masked_at[r]
  BY <1>0, ReceivedKept
<1>2. StoreInv /\ [StoreNext]_storeVars
  BY EngineStepStore DEF EngineInv
<1>3. /\ now' \in Nat /\ now' >= now /\ now \in Int
      /\ masked_at[r] \in Int
  BY <1>2, ClockForward, BoundAssumption
     DEF EngineInv, StoreInv, StoreTypeOK, RequestsOK
<1>4. now - masked_at[r] < Ttl
  BY <1>1, <1>3, TtlAssumption
<1>5. k \in Unexpired
  BY <1>0, <1>4, PromptUnexpired
<1>6. Remembers(k)
  BY <1>2, <1>5, StepRemembers
<1>7. k \in DOMAIN sessions' /\ sessions'[k].last_used >= sessions[k].last_used
  BY <1>2, <1>5, StepRefreshes
<1>8. /\ k \in DOMAIN sessions
      /\ sessions[k].last_used >= masked_at[r]
      /\ minted[r] \subseteq DOMAIN sessions[k].placeholder_to_secret
  BY <1>0, <1>4 DEF HeldWhilePrompt
<1>9. StoreInv'
  BY <1>2, StoreStepInv
<1>10. sessions[k].last_used \in Int /\ sessions'[k].last_used \in Int
  <2>1. RecordOK(sessions[k]) /\ RecordOK(sessions[k])'
    BY <1>2, <1>7, <1>8, <1>9 DEF StoreInv, StoreTypeOK
  <2>2. QED BY <2>1, BoundAssumption DEF RecordOK
<1>11. sessions'[k].last_used >= masked_at[r]
  BY <1>3, <1>7, <1>8, <1>10
<1>12. QED BY <1>1, <1>6, <1>8, <1>11 DEF Remembers

\* A fresh scrub holds what it minted.
LEMMA ScrubHolds ==
  ASSUME EngineInv, NEW r \in Request, NEW k \in Key, NEW F \in SUBSET Finding,
         WithSession(k, F),
         session_key' = [session_key EXCEPT ![r] = k],
         minted' = [minted EXCEPT ![r] =
                      {sessions'[k].secret_to_placeholder[f] : f \in F}],
         masked_at' = [masked_at EXCEPT ![r] = now]
  PROVE  /\ session_key'[r] \in DOMAIN sessions'
         /\ sessions'[session_key'[r]].last_used >= masked_at'[r]
         /\ minted'[r] \subseteq DOMAIN sessions'[session_key'[r]].placeholder_to_secret
<1>1. session_key'[r] = k /\ masked_at'[r] = now /\ now \in Nat
  BY BoundAssumption DEF EngineInv, RequestsOK, StoreInv, StoreTypeOK
<1>2. k \in DOMAIN sessions' /\ sessions'[k].last_used = now
  BY WithSessionMasks DEF EngineInv
<1>3. QED BY <1>1, <1>2, ScrubMints

\* What a prompt answer needs survives every step.
LEMMA PromptStep ==
  ASSUME EngineInv, PromptInv, [Next]_vars PROVE PromptInv'
<1> DEFINE
      \* The parts of PromptInv' that speak of request q.
      Held(q) ==
        /\ phase'[q] \in {"masked", "routed", "answered"}
        /\ now' - masked_at'[q] < Ttl
        => /\ session_key'[q] \in DOMAIN sessions'
           /\ sessions'[session_key'[q]].last_used >= masked_at'[q]
           /\ minted'[q] \subseteq DOMAIN sessions'[session_key'[q]].placeholder_to_secret
      Mapped(q) ==
        phase'[q] \in {"restoring", "missed"} /\ restored_at'[q] - masked_at'[q] < Ttl
          => phase'[q] = "restoring" /\ minted'[q] \subseteq DOMAIN map'[q]
      Unseen(q) ==
        phase'[q] \notin {"restoring", "missed", "done"} => unrestored'[q] = {}
      Full(q) ==
        restored_at'[q] - masked_at'[q] < Ttl =>
          /\ phase'[q] # "missed"
          /\ unrestored'[q] \cap minted'[q] = {}
      Good(q) == Held(q) /\ Mapped(q) /\ Unseen(q) /\ Full(q)
<1>1. (\A q \in Request : Good(q)) => PromptInv'
  BY DEF PromptInv, HeldWhilePrompt, PromptAnswerRestored
<1>2. ASSUME NEW q \in Request, phase[q] \in {"masked", "routed", "answered"}
      PROVE  Held(q)
  BY <1>2, HeldKept DEF PromptInv
\* A request the step does not move keeps what it had.
<1>3. ASSUME NEW q \in Request, phase'[q] = phase[q], restored_at'[q] = restored_at[q],
             masked_at'[q] = masked_at[q], minted'[q] = minted[q],
             map'[q] = map[q], unrestored'[q] = unrestored[q]
      PROVE  Good(q)
  <2>1. Held(q)
    BY <1>2, <1>3
  <2>2. Mapped(q) /\ Unseen(q)
    BY <1>3 DEF PromptInv
  <2>3. Full(q)
    BY <1>3 DEF PromptInv, PromptAnswerRestored
  <2>4. QED BY <2>1, <2>2, <2>3
<1> DEFINE Still(q) == /\ phase'[q] = phase[q] /\ restored_at'[q] = restored_at[q]
                       /\ masked_at'[q] = masked_at[q] /\ minted'[q] = minted[q]
                       /\ map'[q] = map[q] /\ unrestored'[q] = unrestored[q]
<1>4. \A q \in Request : Still(q) => Good(q)
  BY <1>3
<1>5. \A q \in Request : unrestored'[q] = {} /\ phase'[q] # "missed" => Full(q)
  OBVIOUS
<1> HIDE DEF Good, Held, Mapped, Unseen, Full
<1>6. ASSUME NEW r \in Request, NEW k \in Key, NEW F \in SUBSET Finding,
             NEW rest, Scrub(r, k, F, rest)
      PROVE  PromptInv'
  <2>1. \A q \in Request \ {r} : Still(q)
    BY <1>6 DEF Scrub, EngineInv, RequestsOK
  <2>2. /\ phase'[r] = "masked" /\ unrestored'[r] = {}
    BY <1>6 DEF Scrub, EngineInv, RequestsOK, PhasesOK
  <2>3. Held(r)
    BY <1>6, ScrubHolds DEF Scrub, Held
  <2>4. Good(r)
    BY <2>2, <2>3, <1>5 DEF Good, Mapped, Unseen
  <2>5. QED BY <1>1, <1>4, <2>1, <2>4
<1>7. ASSUME NEW r \in Request, NEW k \in Key, NEW F \in SUBSET Finding,
             ScrubFails(r, k, F)
      PROVE  PromptInv'
  <2>1. \A q \in Request \ {r} : Still(q)
    BY <1>7 DEF ScrubFails, EngineInv, RequestsOK
  <2>2. /\ phase'[r] = "failed" /\ unrestored'[r] = {}
    BY <1>7 DEF ScrubFails, EngineInv, RequestsOK, PhasesOK
  <2>3. Good(r)
    BY <2>2, <1>5 DEF Good, Held, Mapped, Unseen
  <2>4. QED BY <1>1, <1>4, <2>1, <2>3
<1>8. ASSUME NEW r \in Request, RecordAndRoute(r) \/ Answer(r) \/ GiveUp(r)
      PROVE  PromptInv'
  <2>1. \A q \in Request \ {r} : Still(q)
    BY <1>8 DEF RecordAndRoute, Answer, GiveUp, EngineInv, RequestsOK
  <2>2. /\ phase[r] \in {"masked", "routed", "answered"}
        /\ phase'[r] \in {"routed", "answered", "failed"}
        /\ unrestored'[r] = unrestored[r]
    BY <1>8 DEF RecordAndRoute, Answer, GiveUp, EngineInv, RequestsOK
  <2>3. unrestored'[r] = {}
    BY <2>2 DEF PromptInv
  <2>4. Held(r)
    BY <2>2, <1>2
  <2>5. Good(r)
    BY <2>2, <2>3, <2>4, <1>5 DEF Good, Mapped, Unseen
  <2>6. QED BY <1>1, <1>4, <2>1, <2>5
<1>9. ASSUME NEW r \in Request, Restore(r)
      PROVE  PromptInv'
  <2>1. \A q \in Request \ {r} : Still(q)
    BY <1>9 DEF Restore, EngineInv, RequestsOK
  <2>2. /\ phase[r] = "answered" /\ phase'[r] = "restoring"
        /\ unrestored'[r] = unrestored[r]
        /\ restored_at'[r] = now
        /\ masked_at'[r] = masked_at[r] /\ minted'[r] = minted[r]
        /\ map'[r] = sessions[session_key[r]].placeholder_to_secret
    BY <1>9 DEF Restore, restore_map, EngineInv, RequestsOK
  <2>3. unrestored'[r] = {}
    BY <2>2 DEF PromptInv
  <2>4. Mapped(r)
    BY <2>2 DEF Mapped, PromptInv, HeldWhilePrompt
  <2>5. Good(r)
    BY <2>2, <2>3, <2>4, <1>5 DEF Good, Held, Unseen
  <2>6. QED BY <1>1, <1>4, <2>1, <2>5
<1>10. ASSUME NEW r \in Request, RestoreMiss(r)
       PROVE  PromptInv'
  <2>1. \A q \in Request \ {r} : Still(q)
    BY <1>10 DEF RestoreMiss, EngineInv, RequestsOK
  <2>2. /\ phase[r] = "answered" /\ phase'[r] = "missed"
        /\ session_key[r] \notin Unexpired
        /\ restored_at'[r] = now /\ masked_at'[r] = masked_at[r]
    BY <1>10 DEF RestoreMiss, SnapshotMiss, EngineInv, RequestsOK
  <2>3. ~(restored_at'[r] - masked_at'[r] < Ttl)
    BY <2>2, PromptUnexpired DEF PromptInv
  <2>4. Good(r)
    BY <2>2, <2>3 DEF Good, Held, Mapped, Unseen, Full
  <2>5. QED BY <1>1, <1>4, <2>1, <2>4
<1>11. ASSUME NEW r \in Request, NEW p, Deliver(r, p)
       PROVE  PromptInv'
  <2>1. \A q \in Request \ {r} : Still(q)
    BY <1>11 DEF Deliver, EngineInv, RequestsOK
  <2>2. /\ phase[r] \in {"restoring", "missed"} /\ phase'[r] = phase[r]
        /\ restored_at'[r] = restored_at[r] /\ masked_at'[r] = masked_at[r]
        /\ minted'[r] = minted[r] /\ map'[r] = map[r]
        /\ \/ unrestored'[r] = unrestored[r]
           \/ p \notin DOMAIN map[r] /\ unrestored'[r] = unrestored[r] \cup {p}
    BY <1>11 DEF Deliver, EngineInv, RequestsOK
  <2>3. Mapped(r)
    BY <2>2 DEF Mapped, PromptInv
  <2>4. Full(r)
    BY <2>2 DEF Full, PromptInv, PromptAnswerRestored
  <2>5. Good(r)
    BY <2>2, <2>3, <2>4 DEF Good, Held, Unseen
  <2>6. QED BY <1>1, <1>4, <2>1, <2>5
<1>12. ASSUME NEW r \in Request, Finish(r)
       PROVE  PromptInv'
  <2>1. \A q \in Request \ {r} : Still(q)
    BY <1>12 DEF Finish, EngineInv, RequestsOK
  <2>2. /\ phase'[r] = "done" /\ unrestored'[r] = unrestored[r]
        /\ restored_at'[r] = restored_at[r] /\ masked_at'[r] = masked_at[r]
        /\ minted'[r] = minted[r]
    BY <1>12 DEF Finish, EngineInv, RequestsOK
  <2>3. Full(r)
    BY <2>2 DEF Full, PromptInv, PromptAnswerRestored
  <2>4. Good(r)
    BY <2>2, <2>3 DEF Good, Held, Mapped, Unseen
  <2>5. QED BY <1>1, <1>4, <2>1, <2>4
<1>13. ASSUME ReadGauges \/ ReadTotals \/ ClockTick \/ UNCHANGED vars
       PROVE  PromptInv'
  <2>1. UNCHANGED requestVars
    BY <1>13 DEF ReadGauges, ReadTotals, ClockTick, vars
  <2>2. \A q \in Request : Still(q)
    BY <2>1 DEF requestVars
  <2>3. QED BY <1>1, <1>4, <2>2
<1>14. QED
  BY <1>6, <1>7, <1>8, <1>9, <1>10, <1>11, <1>12, <1>13 DEF Next, Findings

\* Every answer read within the TTL of its scrub is restored in full, for any
\* number of concurrent requests and any TTL.
THEOREM EnginePromptAnswerRestored == Spec => []PromptAnswerRestored
<1>1. Init => PromptInv
  BY DEF Init, StoreInit, PromptInv, HeldWhilePrompt, PromptAnswerRestored
<1>2. EngineInv /\ PromptInv /\ [Next]_vars => PromptInv'
  BY PromptStep
<1>3. PromptInv => PromptAnswerRestored
  BY DEF PromptInv
<1>4. QED BY EngineInvariant, <1>1, <1>2, <1>3, PTL DEF Spec

-----------------------------------------------------------------------------
(* Each placeholder is rendered one way. *)

\* What was rendered so far is what the map a response is read through says,
\* and before there is a map nothing was rendered.
RenderingInv ==
  \A r \in Request :
    /\ phase[r] \in {"restoring", "missed"} =>
         /\ \A s \in restored[r] : s[1] \in DOMAIN map[r] /\ s[2] = map[r][s[1]]
         /\ unrestored[r] \cap DOMAIN map[r] = {}
    /\ phase[r] \notin {"restoring", "missed", "done"} =>
         restored[r] = {} /\ unrestored[r] = {}

\* A step keeps that, and with it the one rendering of every placeholder.
LEMMA RenderingStep ==
  ASSUME EngineInv, RenderingInv, OneRendering, [Next]_vars
  PROVE  RenderingInv' /\ OneRendering'
<1> DEFINE
      \* The parts of the goal that speak of request q.
      Mapped(q) ==
        /\ phase'[q] \in {"restoring", "missed"} =>
             /\ \A s \in restored'[q] : s[1] \in DOMAIN map'[q] /\ s[2] = map'[q][s[1]]
             /\ unrestored'[q] \cap DOMAIN map'[q] = {}
        /\ phase'[q] \notin {"restoring", "missed", "done"} =>
             restored'[q] = {} /\ unrestored'[q] = {}
      One(q) ==
        \A s \in restored'[q] :
          /\ s[1] \notin unrestored'[q]
          /\ \A t \in restored'[q] : t[1] = s[1] => t = s
      Good(q) == Mapped(q) /\ One(q)
<1>1. (\A q \in Request : Good(q)) => RenderingInv' /\ OneRendering'
  BY DEF RenderingInv, OneRendering
\* A request whose response the step does not touch keeps what it had.
<1>2. ASSUME NEW q \in Request, restored'[q] = restored[q], unrestored'[q] = unrestored[q],
             \/ phase'[q] = phase[q] /\ map'[q] = map[q]
             \/ phase'[q] = "done"
      PROVE  Good(q)
  <2>1. One(q)
    BY <1>2 DEF OneRendering
  <2> QED BY <1>2, <2>1 DEF RenderingInv
\* One that is not being read yet has rendered nothing.
<1>3. ASSUME NEW q \in Request, phase[q] \notin {"restoring", "missed", "done"},
             restored'[q] = restored[q], unrestored'[q] = unrestored[q]
      PROVE  Good(q)
  BY <1>3 DEF RenderingInv
<1> HIDE DEF Good
<1>4. ASSUME NEW r \in Request, NEW k \in Key, NEW F \in SUBSET Finding,
             (\E rest : Scrub(r, k, F, rest)) \/ ScrubFails(r, k, F)
      PROVE  \A q \in Request : Good(q)
  <2>1. UNCHANGED <<restored, unrestored, map>> /\ phase[r] = "idle"
    BY <1>4 DEF Scrub, ScrubFails
  <2>2. \A q \in Request \ {r} : phase'[q] = phase[q]
    BY <1>4 DEF Scrub, ScrubFails, EngineInv, RequestsOK
  <2> QED BY <1>2, <1>3, <2>1, <2>2
<1>5. ASSUME NEW r \in Request,
             RecordAndRoute(r) \/ Answer(r) \/ GiveUp(r) \/ Restore(r) \/ RestoreMiss(r)
      PROVE  \A q \in Request : Good(q)
  <2>1. /\ UNCHANGED <<restored, unrestored>>
        /\ phase[r] \in {"masked", "routed", "answered"}
    BY <1>5 DEF RecordAndRoute, Answer, GiveUp, Restore, RestoreMiss
  <2>2. \A q \in Request \ {r} : phase'[q] = phase[q] /\ map'[q] = map[q]
    BY <1>5 DEF RecordAndRoute, Answer, GiveUp, Restore, RestoreMiss, EngineInv, RequestsOK
  <2> QED BY <1>2, <1>3, <2>1, <2>2
<1>6. ASSUME NEW r \in Request, NEW p, Deliver(r, p)
      PROVE  \A q \in Request : Good(q)
  <2>1. \A q \in Request \ {r} : Good(q)
    BY <1>2, <1>6 DEF Deliver, EngineInv, RequestsOK
  <2>2. /\ phase'[r] = phase[r] /\ phase[r] \in {"restoring", "missed"} /\ map'[r] = map[r]
        /\ \/ /\ p \in DOMAIN map[r] /\ unrestored'[r] = unrestored[r]
              /\ restored'[r] = restored[r] \cup {<<p, map[r][p]>>}
           \/ /\ p \notin DOMAIN map[r] /\ restored'[r] = restored[r]
              /\ unrestored'[r] = unrestored[r] \cup {p}
    BY <1>6 DEF Deliver, EngineInv, RequestsOK
  <2>3. /\ \A s \in restored[r] : s[1] \in DOMAIN map[r] /\ s[2] = map[r][s[1]]
        /\ unrestored[r] \cap DOMAIN map[r] = {}
    BY <2>2 DEF RenderingInv
  <2>4. /\ \A s \in restored'[r] : s[1] \in DOMAIN map[r] /\ s[2] = map[r][s[1]]
        /\ unrestored'[r] \cap DOMAIN map[r] = {}
    BY <2>2, <2>3
  <2>5. \A s \in restored'[r] : s = <<s[1], s[2]>>
    BY <2>2 DEF EngineInv, RequestsOK
  <2>6. One(r)
    BY <2>4, <2>5
  <2>7. Good(r)
    BY <2>2, <2>4, <2>6 DEF Good
  <2> QED BY <2>1, <2>7
<1>7. ASSUME NEW r \in Request, Finish(r)
      PROVE  \A q \in Request : Good(q)
  BY <1>2, <1>7 DEF Finish, EngineInv, RequestsOK
<1>8. ASSUME ReadGauges \/ ReadTotals \/ ClockTick \/ UNCHANGED vars
      PROVE  \A q \in Request : Good(q)
  BY <1>2, <1>8 DEF ReadGauges, ReadTotals, ClockTick, requestVars, vars
<1> QED BY <1>1, <1>4, <1>5, <1>6, <1>7, <1>8 DEF Next, Findings

\* A placeholder is rendered one way throughout a response, for any number of
\* requests, chunks and evictions: the map is cloned once (restore_response).
THEOREM EngineOneRendering == Spec => []OneRendering
<1>1. Init => RenderingInv /\ OneRendering
  BY DEF Init, RenderingInv, OneRendering
<1>2. EngineInv /\ RenderingInv /\ OneRendering /\ [Next]_vars
        => RenderingInv' /\ OneRendering'
  BY RenderingStep
<1> QED BY EngineInvariant, <1>1, <1>2, PTL DEF Spec

-----------------------------------------------------------------------------
(* The stats page is never ahead of what was replaced. *)

\* What gauges() counts, the replacements made and not recorded yet, and all made.
InRam == {x \in (DOMAIN sessions) \X Placeholder :
           x[2] \in DOMAIN sessions[x[1]].placeholder_to_secret}
Awaiting == {x \in Unrecorded \X Finding : x[2] \in found[x[1]]}
Made == totals.matches + Cardinality(Awaiting)

\* Nothing is in RAM that was not replaced; what was read of the RAM stays behind
\* what is replaced later; what a snapshot found unrecorded keeps its findings.
CountInv ==
  /\ totals \in Totals
  /\ \A r \in Request : /\ IsFiniteSet(found[r])
                        /\ phase[r] \in {"idle", "masked"} => route[r] = "none"
  /\ IsFiniteSet(InRam) /\ IsFiniteSet(Awaiting)
  /\ Cardinality(InRam) <= Made
  /\ gauges.pending => gauges.unique_values \in Nat /\ gauges.unique_values <= Made
  /\ snapshot.unrecorded \subseteq {r \in Request : phase[r] # "idle"}
  /\ SnapshotNotAhead

\* A pair with one fixed first component counts as its second.
LEMMA RowCount ==
  ASSUME NEW x, NEW T, IsFiniteSet(T)
  PROVE  /\ IsFiniteSet({x} \X T)
         /\ Cardinality({x} \X T) = Cardinality(T)
         /\ Cardinality(T) \in Nat
<1>1. IsFiniteSet({x}) /\ Cardinality({x}) = 1
  BY FS_Singleton
<1>2. Cardinality(T) \in Nat
  BY FS_CardinalityType
<1> QED BY <1>1, <1>2, FS_Product

\* Sets with nothing in common count together as they count apart.
LEMMA DisjointCount ==
  ASSUME NEW S, NEW T, IsFiniteSet(S), IsFiniteSet(T), S \cap T = {}
  PROVE  /\ IsFiniteSet(S \cup T)
         /\ Cardinality(S \cup T) = Cardinality(S) + Cardinality(T)
<1>1. Cardinality(S \cap T) = 0
  BY FS_EmptySet
<1>2. Cardinality(S) \in Nat /\ Cardinality(T) \in Nat
  BY FS_CardinalityType
<1>3. /\ IsFiniteSet(S \cup T)
      /\ Cardinality(S \cup T) = Cardinality(S) + Cardinality(T) - Cardinality(S \cap T)
  BY ONLY IsFiniteSet(S), IsFiniteSet(T), FS_Union, Zenon
<1> QED BY ONLY <1>1, <1>2, <1>3

\* The placeholders minted for some findings are no more than the findings.
LEMMA MintCount ==
  ASSUME NEW h, NEW F, IsFiniteSet(F)
  PROVE  LET fresh == {MintFor(h, f) : f \in F} IN
         IsFiniteSet(fresh) /\ Cardinality(fresh) <= Cardinality(F)
<1> DEFINE fresh == {MintFor(h, f) : f \in F}
           mint == [f \in F |-> MintFor(h, f)]
<1>1. mint \in Surjection(F, fresh)
  BY DEF Surjection
<1> HIDE DEF mint
<1> QED BY <1>1, FS_Surjection

\* A scrub adds no more to the store than it replaces.
LEMMA ScrubCount ==
  ASSUME StoreInv, IsFiniteSet(InRam), NEW k \in Key, NEW F \in Findings, WithSession(k, F)
  PROVE  IsFiniteSet(InRam)' /\ Cardinality(InRam)' <= Cardinality(InRam) + Cardinality(F)
<1> DEFINE rec == EntryOrNew(k)
           new == F \ DOMAIN rec.secret_to_placeholder
           fresh == {MintFor(rec.hmac_key, f) : f \in new}
<1>1. /\ IsFiniteSet(F) /\ IsFiniteSet(new)
      /\ Cardinality(new) <= Cardinality(F)
      /\ Cardinality(F) \in Nat /\ Cardinality(new) \in Nat
  BY FS_Subset, FS_CardinalityType DEF Findings
<1>2. IsFiniteSet(fresh) /\ Cardinality(fresh) <= Cardinality(new)
  BY <1>1, MintCount
<1>3. InRam' \subseteq InRam \cup ({k} \X fresh)
  <2> SUFFICES ASSUME NEW j \in DOMAIN sessions',
                      NEW p \in DOMAIN sessions'[j].placeholder_to_secret, p \in Placeholder
               PROVE  <<j, p>> \in InRam \cup ({k} \X fresh)
    BY DEF InRam
  <2>1. CASE j # k
    <3>1. j \in DOMAIN sessions /\ sessions'[j] = sessions[j]
      BY <2>1 DEF WithSession, Unexpired
    <3> QED BY <3>1 DEF InRam
  <2>2. CASE j = k
    <3>1. DOMAIN sessions'[k].placeholder_to_secret
            = DOMAIN rec.placeholder_to_secret \cup fresh
      BY DEF WithSession, WithPlaceholders, Reverse
    <3>2. CASE k \in Unexpired
      <4>1. rec.placeholder_to_secret = sessions[k].placeholder_to_secret /\ k \in DOMAIN sessions
        <5>1. RecordOK(sessions[k]) /\ k \in DOMAIN sessions
          BY <3>2 DEF Unexpired, StoreInv, StoreTypeOK
        <5> QED BY <3>2, <5>1 DEF EntryOrNew, RecordOK
      <4> QED BY <2>2, <3>1, <4>1 DEF InRam
    <3>3. CASE k \notin Unexpired
      <4>1. DOMAIN rec.placeholder_to_secret = {}
        BY <3>3 DEF EntryOrNew, NewRecord, EmptyMap
      <4> QED BY <2>2, <3>1, <4>1
    <3> QED BY <3>2, <3>3
  <2> QED BY <2>1, <2>2
<1> HIDE DEF rec, new, fresh
<1>4. /\ IsFiniteSet({k} \X fresh) /\ Cardinality({k} \X fresh) = Cardinality(fresh)
      /\ Cardinality(fresh) \in Nat
  BY <1>2, RowCount
<1>5. /\ IsFiniteSet(InRam \cup ({k} \X fresh))
      /\ Cardinality(InRam \cup ({k} \X fresh))
           = Cardinality(InRam) + Cardinality(fresh) - Cardinality(InRam \cap ({k} \X fresh))
  BY <1>4, FS_Union
<1>6. IsFiniteSet(InRam \cap ({k} \X fresh)) /\ Cardinality(InRam \cap ({k} \X fresh)) \in Nat
  BY <1>4, FS_Intersection, FS_CardinalityType
<1>7. IsFiniteSet(InRam') /\ Cardinality(InRam') <= Cardinality(InRam \cup ({k} \X fresh))
  BY <1>3, <1>5, FS_Subset
<1>8. Cardinality(InRam') \in Nat /\ Cardinality(InRam) \in Nat
  BY <1>7, FS_CardinalityType
<1> QED BY <1>1, <1>2, <1>4, <1>5, <1>6, <1>7, <1>8

\* A step of the store that scrubs nothing adds nothing.
LEMMA SweepCount ==
  ASSUME IsFiniteSet(InRam), DOMAIN sessions' \subseteq DOMAIN sessions,
         \A k \in DOMAIN sessions' :
           sessions'[k].placeholder_to_secret = sessions[k].placeholder_to_secret
  PROVE  IsFiniteSet(InRam)' /\ Cardinality(InRam)' <= Cardinality(InRam)
<1>1. InRam' \subseteq InRam
  BY DEF InRam
<1>2. IsFiniteSet(InRam') /\ Cardinality(InRam') <= Cardinality(InRam)
  BY <1>1, FS_Subset
<1> QED BY <1>2

\* A scrub's findings wait to be recorded.
LEMMA AwaitingScrub ==
  ASSUME RequestsOK, CountInv, NEW r \in Request, NEW F \in Findings,
         phase[r] = "idle", NEW ph \in {"masked", "failed"},
         phase' = [phase EXCEPT ![r] = ph], found' = [found EXCEPT ![r] = F],
         route' = route, totals' = totals
  PROVE  IsFiniteSet(Awaiting)' /\ Made' = Made + Cardinality(F)
<1>0. /\ route[r] = "none" /\ F \subseteq Finding
      /\ phase \in [Request -> Phase] /\ found \in [Request -> SUBSET Finding]
  BY DEF RequestsOK, CountInv, Findings
<1>1. Awaiting' = Awaiting \cup ({r} \X F)
  <2>1. Unrecorded' = Unrecorded \cup {r}
    BY <1>0 DEF Unrecorded
  <2>2. r \notin Unrecorded
    BY DEF Unrecorded
  <2>3. \A q \in Request : found'[q] = IF q = r THEN F ELSE found[q]
    BY <1>0
  <2>4. Unrecorded \subseteq Request
    BY DEF Unrecorded
  <2>5. ASSUME NEW q, NEW f PROVE <<q, f>> \in Awaiting' <=> <<q, f>> \in Awaiting \cup ({r} \X F)
    BY <1>0, <2>1, <2>2, <2>3, <2>4 DEF Awaiting
  <2>6. Awaiting' \subseteq Request \X Finding /\ Awaiting \subseteq Request \X Finding
    BY <1>0, <2>1, <2>4 DEF Awaiting
  <2> QED BY <1>0, <2>5, <2>6
<1>2. Awaiting \cap ({r} \X F) = {}
  BY DEF Awaiting, Unrecorded
<1>3. /\ IsFiniteSet({r} \X F) /\ Cardinality({r} \X F) = Cardinality(F)
      /\ Cardinality(F) \in Nat
  BY RowCount DEF Findings
<1>4. IsFiniteSet(Awaiting) /\ Cardinality(Awaiting) \in Nat
  BY FS_CardinalityType DEF CountInv
<1>5. /\ IsFiniteSet(Awaiting \cup ({r} \X F))
      /\ Cardinality(Awaiting \cup ({r} \X F)) = Cardinality(Awaiting) + Cardinality(F)
  BY ONLY <1>2, <1>3, <1>4, DisjointCount
<1>6. totals.matches \in Nat
  BY DEF CountInv, Totals
<1>7. Cardinality(Awaiting)' = Cardinality(Awaiting) + Cardinality(F)
  BY <1>1, <1>5
<1> QED BY <1>1, <1>3, <1>4, <1>5, <1>6, <1>7 DEF Made

\* Recording moves them to the totals.
LEMMA AwaitingRecord ==
  ASSUME RequestsOK, CountInv, NEW r \in Request, RecordAndRoute(r)
  PROVE  IsFiniteSet(Awaiting)' /\ totals' \in Totals /\ Made' = Made
<1>1. /\ phase[r] = "masked" /\ route[r] = "none"
      /\ phase' = [phase EXCEPT ![r] = "routed"] /\ found' = found
      /\ route' = [route EXCEPT ![r] = route'[r]] /\ route'[r] # "none"
  <2>1. phase[r] = "masked" /\ route[r] = "none" /\ route \in [Request -> {"none", "current", "local"}]
    BY DEF RecordAndRoute, CountInv, RequestsOK
  <2>2. PICK to \in {"current", "local"} : route' = [route EXCEPT ![r] = to]
    BY DEF RecordAndRoute
  <2> QED BY <2>1, <2>2 DEF RecordAndRoute
<1>0. found[r] \subseteq Finding /\ phase \in [Request -> Phase] /\ IsFiniteSet(found[r])
  BY DEF RequestsOK, CountInv
<1>2. Awaiting = Awaiting' \cup ({r} \X found[r])
  BY <1>1 DEF Awaiting, Unrecorded, RequestsOK
<1>3. Awaiting' \cap ({r} \X found[r]) = {}
  BY <1>1 DEF Awaiting, Unrecorded, RequestsOK
<1>4. /\ IsFiniteSet({r} \X found[r]) /\ Cardinality({r} \X found[r]) = Cardinality(found[r])
      /\ Cardinality(found[r]) \in Nat
  BY <1>0, RowCount
<1>5. IsFiniteSet(Awaiting')
  BY <1>2, FS_Subset DEF CountInv
<1>6. Cardinality(Awaiting') \in Nat
  BY <1>5, FS_CardinalityType
<1>7. Cardinality(Awaiting) = Cardinality(Awaiting') + Cardinality(found[r])
  BY <1>2, <1>3, <1>4, <1>5, <1>6, DisjointCount
<1>8. totals' \in Totals /\ totals'.matches = totals.matches + Cardinality(found[r])
  <2>1. totals \in Totals
    BY DEF CountInv
  <2>2. PICK m \in {0, 1}, o \in {0, 1} :
          totals' = [totals EXCEPT !.requests = @ + 1,
                                   !.requests_with_matches = @ + m,
                                   !.matches = @ + Cardinality(found[r]),
                                   !.force_local_overrides = @ + o]
    BY DEF RecordAndRoute
  <2>3. PICK c \in Nat : c = Cardinality(found[r])
    BY <1>4
  <2>4. totals' = [requests |-> totals.requests + 1,
                   requests_with_matches |-> totals.requests_with_matches + m,
                   matches |-> totals.matches + c,
                   force_local_overrides |-> totals.force_local_overrides + o,
                   restore_misses |-> totals.restore_misses]
    BY ONLY <2>1, <2>2, <2>3 DEF Totals
  <2>5. /\ totals.requests + 1 \in Nat /\ totals.requests_with_matches + m \in Nat
        /\ totals.matches + c \in Nat /\ totals.force_local_overrides + o \in Nat
        /\ totals.restore_misses \in Nat
    BY ONLY <2>1, m \in {0, 1}, o \in {0, 1}, c \in Nat DEF Totals
  <2> QED BY ONLY <2>3, <2>4, <2>5 DEF Totals
<1>9. totals.matches \in Nat
  BY DEF CountInv, Totals
<1> QED BY <1>4, <1>5, <1>6, <1>7, <1>8, <1>9 DEF Made

\* Any other step leaves what waits as it is.
LEMMA AwaitingKept ==
  ASSUME CountInv, found' = found, route' = route, totals'.matches = totals.matches,
         \A q \in Request : phase'[q] = "idle" <=> phase[q] = "idle"
  PROVE  IsFiniteSet(Awaiting)' /\ Made' = Made
<1>1. Awaiting' = Awaiting
  BY DEF Awaiting, Unrecorded
<1> QED BY <1>1 DEF CountInv, Made

\* No step takes a replacement back, so what was read stays behind.
LEMMA CountFrame ==
  ASSUME EngineInv, CountInv, [Next]_vars, totals' \in Totals,
         IsFiniteSet(InRam)', IsFiniteSet(Awaiting)', Made' >= Made,
         Cardinality(InRam)' <= Made',
         \A q \in Request : /\ IsFiniteSet(found'[q])
                            /\ phase'[q] \in {"idle", "masked"} => route'[q] = "none",
         gauges' = gauges, snapshot' = snapshot
  PROVE  CountInv'
<1>1. Made \in Nat /\ Made' \in Nat
  <2>1. Cardinality(Awaiting) \in Nat /\ Cardinality(Awaiting)' \in Nat
    BY FS_CardinalityType DEF CountInv
  <2>2. totals.matches \in Nat /\ totals'.matches \in Nat
    BY DEF CountInv, Totals
  <2> QED BY <2>1, <2>2 DEF Made
<1>2. gauges'.pending => gauges'.unique_values \in Nat /\ gauges'.unique_values <= Made'
  BY <1>1 DEF CountInv
<1>3. \A q \in snapshot.unrecorded : phase'[q] # "idle" /\ found'[q] = found[q]
  BY ReceivedKept DEF CountInv
<1>4. snapshot'.unrecorded \subseteq {q \in Request : phase'[q] # "idle"}
  BY <1>3 DEF CountInv
<1>5. SnapshotNotAhead'
  <2>1. {x \in snapshot'.unrecorded \X Finding : x[2] \in found'[x[1]]}
          = {x \in snapshot.unrecorded \X Finding : x[2] \in found[x[1]]}
    BY <1>3
  <2> QED BY <2>1 DEF CountInv, SnapshotNotAhead
<1> QED BY <1>2, <1>4, <1>5 DEF CountInv

\* Every step of the engine keeps the counts.
LEMMA CountStep ==
  ASSUME EngineInv, CountInv, [Next]_vars PROVE CountInv'
<1> USE DEF EngineInv
<1>0. /\ Made \in Nat /\ Cardinality(InRam) \in Nat /\ Cardinality(InRam) <= Made
      /\ totals.matches \in Nat
  BY FS_CardinalityType DEF CountInv, Made, Totals
<1>1. ASSUME NEW r \in Request, NEW k \in Key, NEW F \in Findings,
             (\E rest : Scrub(r, k, F, rest)) \/ ScrubFails(r, k, F)
      PROVE  CountInv'
  <2>1. PICK ph \in {"masked", "failed"} :
          /\ phase[r] = "idle" /\ phase' = [phase EXCEPT ![r] = ph]
          /\ found' = [found EXCEPT ![r] = F]
          /\ UNCHANGED <<route, totals, gauges, snapshot>> /\ WithSession(k, F)
    BY <1>1 DEF Scrub, ScrubFails, statsVars
  <2>2. IsFiniteSet(Awaiting)' /\ Made' = Made + Cardinality(F)
    BY <2>1, AwaitingScrub
  <2>3. IsFiniteSet(InRam)' /\ Cardinality(InRam)' <= Cardinality(InRam) + Cardinality(F)
    BY <2>1, ScrubCount DEF CountInv
  <2>4. \A q \in Request : /\ IsFiniteSet(found'[q])
                           /\ phase'[q] \in {"idle", "masked"} => route'[q] = "none"
    <3>1. \A q \in Request : found'[q] = IF q = r THEN F ELSE found[q]
      BY <2>1 DEF RequestsOK
    <3>2. \A q \in Request : phase'[q] = IF q = r THEN ph ELSE phase[q]
      BY <2>1 DEF RequestsOK
    <3>3. IsFiniteSet(F) /\ \A q \in Request : IsFiniteSet(found[q])
      BY DEF Findings, CountInv
    <3>4. \A q \in Request : IsFiniteSet(found'[q])
      BY <3>1, <3>3
    <3>5. \A q \in Request : phase[q] \in {"idle", "masked"} => route[q] = "none"
      BY DEF CountInv
    <3>6. route' = route
      BY <2>1
    <3> QED BY <2>1, <3>2, <3>4, <3>5, <3>6
  <2>5. Cardinality(F) \in Nat
    BY FS_CardinalityType DEF Findings
  <2>6. Cardinality(InRam)' \in Nat
    BY <2>3, FS_CardinalityType
  <2>7. Made' >= Made /\ Cardinality(InRam)' <= Made'
    BY <1>0, <2>2, <2>3, <2>5, <2>6
  <2>8. totals' \in Totals
    BY <2>1 DEF CountInv
  <2> QED BY <2>1, <2>2, <2>3, <2>4, <2>7, <2>8, CountFrame
<1>2. ASSUME NEW r \in Request, RecordAndRoute(r)
      PROVE  CountInv'
  <2>1. IsFiniteSet(Awaiting)' /\ totals' \in Totals /\ Made' = Made
    BY <1>2, AwaitingRecord
  <2>2. sessions' = sessions /\ found' = found /\ gauges' = gauges /\ snapshot' = snapshot
    BY <1>2 DEF RecordAndRoute, storeVars, statsVars
  <2>3. IsFiniteSet(InRam)' /\ Cardinality(InRam)' = Cardinality(InRam)
    BY <2>2 DEF InRam, CountInv
  <2>4. \A q \in Request : /\ IsFiniteSet(found'[q])
                           /\ phase'[q] \in {"idle", "masked"} => route'[q] = "none"
    BY <1>2, <2>2 DEF RecordAndRoute, CountInv, RequestsOK
  <2> QED BY <1>0, <2>1, <2>2, <2>3, <2>4, CountFrame
\* The steps that leave what waits and what is counted as it is.
<1>3. ASSUME found' = found, route' = route, totals' \in Totals,
             totals'.matches = totals.matches,
             \A q \in Request : phase'[q] \in {"idle", "masked"} => phase'[q] = phase[q],
             \A q \in Request : phase[q] = "idle" => phase'[q] = "idle",
             DOMAIN sessions' \subseteq DOMAIN sessions,
             \A k \in DOMAIN sessions' :
               sessions'[k].placeholder_to_secret = sessions[k].placeholder_to_secret
      PROVE  /\ IsFiniteSet(Awaiting)' /\ Made' = Made
             /\ IsFiniteSet(InRam)' /\ Cardinality(InRam)' <= Cardinality(InRam)
             /\ Cardinality(InRam)' \in Nat
             /\ \A q \in Request : /\ IsFiniteSet(found'[q])
                                   /\ phase'[q] \in {"idle", "masked"} => route'[q] = "none"
  <2>1. IsFiniteSet(Awaiting)' /\ Made' = Made
    BY <1>3, AwaitingKept
  <2>2. IsFiniteSet(InRam)' /\ Cardinality(InRam)' <= Cardinality(InRam)
    BY <1>3, SweepCount DEF CountInv
  <2>3. Cardinality(InRam)' \in Nat
    BY <2>2, FS_CardinalityType
  <2> QED BY <1>3, <2>1, <2>2, <2>3 DEF CountInv
<1>4. ASSUME NEW r \in Request,
             Answer(r) \/ GiveUp(r) \/ Restore(r) \/ RestoreMiss(r) \/ Finish(r)
      PROVE  CountInv'
  <2>1. /\ UNCHANGED <<found, route, gauges, snapshot>>
        /\ \A q \in Request : phase'[q] \in {"idle", "masked"} => phase'[q] = phase[q]
        /\ \A q \in Request : phase[q] = "idle" => phase'[q] = "idle"
    BY <1>4 DEF Answer, GiveUp, Restore, RestoreMiss, Finish, RequestsOK, statsVars
  <2>2. totals' \in Totals /\ totals'.matches = totals.matches
    BY <1>4 DEF Answer, GiveUp, Restore, RestoreMiss, Finish, CountInv, Totals
  <2>3. /\ DOMAIN sessions' \subseteq DOMAIN sessions
        /\ \A k \in DOMAIN sessions' :
             sessions'[k].placeholder_to_secret = sessions[k].placeholder_to_secret
    <3>1. CASE Answer(r) \/ GiveUp(r) \/ Finish(r)
      BY <3>1 DEF Answer, GiveUp, Finish, storeVars
    <3>2. CASE RestoreMiss(r)
      BY <3>2 DEF RestoreMiss, SnapshotMiss, evict_expired, Unexpired
    <3>3. CASE Restore(r)
      <4>1. /\ DOMAIN sessions' = Unexpired /\ Unexpired \subseteq DOMAIN sessions
            /\ \A k \in Unexpired :
                 \/ sessions'[k] = sessions[k]
                 \/ sessions'[k] = [sessions[k] EXCEPT !.last_used = now]
        BY <3>3 DEF Restore, SnapshotHit, evict_expired, Unexpired
      <4>2. \A k \in Unexpired : RecordOK(sessions[k])
        BY <4>1 DEF StoreInv, StoreTypeOK
      <4>3. ASSUME NEW k \in Unexpired
            PROVE  sessions'[k].placeholder_to_secret = sessions[k].placeholder_to_secret
        <5>1. CASE sessions'[k] = [sessions[k] EXCEPT !.last_used = now]
          BY <5>1, <4>2 DEF RecordOK
        <5> QED BY <4>1, <5>1
      <4> QED BY <4>1, <4>3
    <3> QED BY <1>4, <3>1, <3>2, <3>3
  <2> QED BY <1>0, <1>3, <2>1, <2>2, <2>3, CountFrame
<1>5. ASSUME NEW r \in Request, NEW p, Deliver(r, p)
      PROVE  CountInv'
  BY <1>0, <1>3, <1>5, CountFrame DEF Deliver, storeVars, statsVars, CountInv
<1>6. CASE ReadGauges
  <2>1. /\ UNCHANGED <<found, route, phase, totals, snapshot>>
        /\ DOMAIN sessions' \subseteq DOMAIN sessions
        /\ \A k \in DOMAIN sessions' : sessions'[k] = sessions[k]
    BY <1>6 DEF ReadGauges, Gauges, evict_expired, Unexpired, requestVars
  <2>2. /\ IsFiniteSet(Awaiting)' /\ Made' = Made
        /\ IsFiniteSet(InRam)' /\ Cardinality(InRam)' <= Cardinality(InRam)
        /\ Cardinality(InRam)' \in Nat
        /\ \A q \in Request : /\ IsFiniteSet(found'[q])
                              /\ phase'[q] \in {"idle", "masked"} => route'[q] = "none"
    BY <1>3, <2>1 DEF CountInv
  <2>3. gauges'.unique_values = Cardinality(InRam)'
    <3>1. InRam' = {x \in Unexpired \X Placeholder :
                     x[2] \in DOMAIN sessions[x[1]].placeholder_to_secret}
      BY <1>6 DEF ReadGauges, Gauges, evict_expired, InRam, Unexpired
    <3>2. gauges'.unique_values = UniqueValues(Unexpired)
      BY <1>6 DEF ReadGauges
    <3> QED BY <3>1, <3>2 DEF UniqueValues
  <2>4. snapshot'.unrecorded \subseteq {q \in Request : phase'[q] # "idle"}
    BY <2>1 DEF CountInv
  <2>5. SnapshotNotAhead'
    BY <2>1 DEF CountInv, SnapshotNotAhead
  <2> QED BY <1>0, <2>1, <2>2, <2>3, <2>4, <2>5 DEF CountInv
<1>7. CASE ReadTotals
  <2>1. /\ UNCHANGED <<found, route, phase, totals, sessions>>
        /\ gauges' = NoGauges /\ gauges.pending
        /\ snapshot'.unique_values = gauges.unique_values
        /\ snapshot'.totals = totals /\ snapshot'.unrecorded = Unrecorded
    BY <1>7 DEF ReadTotals, requestVars, storeVars
  <2>2. /\ IsFiniteSet(Awaiting)' /\ Made' = Made
        /\ IsFiniteSet(InRam)' /\ Cardinality(InRam)' <= Cardinality(InRam)
        /\ Cardinality(InRam)' \in Nat
        /\ \A q \in Request : /\ IsFiniteSet(found'[q])
                              /\ phase'[q] \in {"idle", "masked"} => route'[q] = "none"
    BY <1>3, <2>1 DEF CountInv
  <2>3. ~gauges'.pending
    BY <2>1 DEF NoGauges
  <2>4. SnapshotNotAhead'
    <3>1. {x \in snapshot'.unrecorded \X Finding : x[2] \in found'[x[1]]} = Awaiting
      BY <2>1 DEF Awaiting
    <3>2. gauges.unique_values <= Made
      BY <2>1 DEF CountInv
    <3> QED BY <2>1, <3>1, <3>2 DEF SnapshotNotAhead, Made
  <2>5. snapshot'.unrecorded \subseteq {q \in Request : phase'[q] # "idle"}
    BY <2>1 DEF Unrecorded
  <2> QED BY <1>0, <2>1, <2>2, <2>3, <2>4, <2>5 DEF CountInv
<1>8. ASSUME ClockTick \/ UNCHANGED vars PROVE CountInv'
  <2>1. UNCHANGED <<found, route, phase, totals, sessions, gauges, snapshot>>
    BY <1>8 DEF ClockTick, Tick, requestVars, statsVars, storeVars, vars
  <2> QED BY <1>0, <1>3, <2>1, CountFrame DEF CountInv
<1> QED BY <1>1, <1>2, <1>4, <1>5, <1>6, <1>7, <1>8 DEF Next

\* The counts are right at the start.
LEMMA CountInit == Init => CountInv
<1> SUFFICES ASSUME Init PROVE CountInv
  OBVIOUS
<1>1. InRam = {} /\ Awaiting = {}
  BY DEF Init, StoreInit, EmptyMap, InRam, Awaiting, Unrecorded
<1>2. {x \in {} \X Finding : x[2] \in found[x[1]]} = {}
  OBVIOUS
<1>3. IsFiniteSet({}) /\ Cardinality({}) = 0
  BY FS_EmptySet
<1>4. /\ phase = [r \in Request |-> "idle"] /\ route = [r \in Request |-> "none"]
      /\ found = [r \in Request |-> {}] /\ totals = ZeroTotals /\ gauges = NoGauges
      /\ snapshot.unrecorded = {} /\ snapshot.unique_values = 0 /\ snapshot.totals = ZeroTotals
  BY DEF Init
<1>5. IsFiniteSet(InRam) /\ IsFiniteSet(Awaiting) /\ Cardinality(InRam) <= Made
  BY <1>1, <1>3, <1>4 DEF Made, ZeroTotals
<1>6. \A r \in Request : IsFiniteSet(found[r])
  BY <1>3, <1>4
<1>7. \A r \in Request : route[r] = "none"
  BY <1>4
<1>8. SnapshotNotAhead
  BY <1>2, <1>3, <1>4 DEF SnapshotNotAhead, ZeroTotals
<1>9. totals \in Totals /\ ~gauges.pending
  BY <1>4 DEF Totals, ZeroTotals, NoGauges
<1> QED BY <1>4, <1>5, <1>6, <1>7, <1>8, <1>9
    DEF CountInv

\* The counts are always right.
LEMMA CountInvariant == Spec => []CountInv
<1>1. EngineInv /\ CountInv /\ [Next]_vars => CountInv'
  BY CountStep
<1> QED BY CountInit, EngineInvariant, <1>1, PTL DEF Spec

\* The whole state of the engine is of its types; the counters are natural numbers.
THEOREM EngineTypeCorrect == Spec => []TypeOK
<1>1. EngineInv /\ CountInv => TypeOK
  BY DEF EngineInv, StoreInv, CountInv, TypeOK
<1> QED BY EngineInvariant, CountInvariant, <1>1, PTL

\* The stats page never shows more masked values in RAM than replacements made, for any
\* number of requests, and wherever its two locks fall among their steps.
THEOREM EngineSnapshotNotAhead == Spec => []SnapshotNotAhead
<1>1. CountInv => SnapshotNotAhead
  BY DEF CountInv
<1> QED BY CountInvariant, <1>1, PTL
=============================================================================
