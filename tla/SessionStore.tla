---------------------------- MODULE SessionStore ----------------------------
(***************************************************************************)
(* The RAM-only session store of the maskclaw crate (session.rs): one      *)
(* record per session key, each with its own random HMAC key and the two   *)
(* maps between findings and placeholders, evicted lazily once idle for    *)
(* the TTL.  Every operation runs under the store's mutex from its first   *)
(* to its last line, so each is one step.                                  *)
(*                                                                         *)
(* Abstracted: a random 32-byte key is the number of the draw, so no two   *)
(* draws are equal; the kind of a finding is the slug sanitize_kind makes  *)
(* of it; the truncated HMAC is any injective Mint.                        *)
(***************************************************************************)
EXTENDS Integers, FiniteSets

CONSTANTS
  Key,            \* session keys
  Slug,           \* sanitized kinds
  Value,          \* secret strings
  Ttl,            \* session_ttl, in clock units
  MaxTime,        \* bound: the clock stops here
  MaxRecords,     \* bound: session records ever created
  Mint(_, _, _)   \* Mint(hmac_key, slug, value): the placeholder text

HmacKey == 1 .. MaxRecords
Finding == [kind : Slug, value : Value]
MintFor(h, f) == Mint(h, f.kind, f.value)
Placeholder == {MintFor(h, f) : h \in HmacKey, f \in Finding}

ASSUME TtlAssumption == Ttl \in Nat \ {0}
ASSUME BoundAssumption == MaxTime \in Nat /\ MaxRecords \in Nat

\* keyed_digest is a MAC of the pair (slug, value) under the record's key.
ASSUME MintInjective ==
  \A g, h \in HmacKey : \A e, f \in Finding :
     MintFor(g, e) = MintFor(h, f) => g = h /\ e = f

VARIABLES
  now,         \* the monotonic clock
  sessions,    \* the live map: session key -> record
  keys_drawn   \* how many records SessionRecord::new has made

storeVars == <<now, sessions, keys_drawn>>

-----------------------------------------------------------------------------
(* Records. *)

EmptyMap == [x \in {} |-> x]

\* Mutant of NewRecord: one process-wide key in place of a fresh one.
NewRecord_FixedKey(h) ==
  [hmac_key |-> 1, placeholder_to_secret |-> EmptyMap,
   secret_to_placeholder |-> EmptyMap, last_used |-> now]

NewRecord(h) ==
  [hmac_key |-> h, placeholder_to_secret |-> EmptyMap,
   secret_to_placeholder |-> EmptyMap, last_used |-> now]

\* The forward map after placeholder_for ran on every finding of F: a known
\* finding keeps its placeholder, an unknown one is minted.
Forward(rec, F) ==
  LET known == DOMAIN rec.secret_to_placeholder
  IN [f \in known \cup F |-> IF f \in known THEN rec.secret_to_placeholder[f]
                                            ELSE MintFor(rec.hmac_key, f)]

\* Mutant of Reverse: the reverse map is not written.
Reverse_NotWritten(rec, F) == rec.placeholder_to_secret

\* The reverse map after the same calls.
Reverse(rec, F) ==
  LET new == F \ DOMAIN rec.secret_to_placeholder
      fresh == {MintFor(rec.hmac_key, f) : f \in new}
  IN [p \in DOMAIN rec.placeholder_to_secret \cup fresh |->
        IF p \in fresh
        THEN (CHOOSE f \in new : MintFor(rec.hmac_key, f) = p).value
        ELSE rec.placeholder_to_secret[p]]

WithPlaceholders(rec, F) ==
  [hmac_key |-> rec.hmac_key, placeholder_to_secret |-> Reverse(rec, F),
   secret_to_placeholder |-> Forward(rec, F), last_used |-> rec.last_used]

-----------------------------------------------------------------------------
(* Operations. *)

\* The keys evict_expired retains.
Unexpired == {k \in DOMAIN sessions : now - sessions[k].last_used < Ttl}

evict_expired == [k \in Unexpired |-> sessions[k]]

\* Mutants of EntryOrNew: insert instead of or_insert_with; last_used set on
\* creation only; last_used holds the expiry time.
EntryOrNew_Overwrite(k) == NewRecord(keys_drawn + 1)
EntryOrNew_NoRefresh(k) ==
  IF k \in Unexpired THEN sessions[k] ELSE NewRecord(keys_drawn + 1)

\* The record with_session hands to its closure, its idle clock restarted.
EntryOrNew(k) ==
  IF k \in Unexpired THEN [sessions[k] EXCEPT !.last_used = now]
                     ELSE NewRecord(keys_drawn + 1)

\* with_session(k, f) where f masks the findings F.
WithSession(k, F) ==
  /\ k \notin Unexpired => keys_drawn < MaxRecords
  /\ keys_drawn' = IF k \in Unexpired THEN keys_drawn ELSE keys_drawn + 1
  /\ sessions' = [j \in Unexpired \cup {k} |->
                    IF j = k THEN WithPlaceholders(EntryOrNew(k), F)
                             ELSE sessions[j]]
  /\ now' = now

\* snapshot_map(k) found a record: its map is cloned, its idle clock restarted.
SnapshotHit(k) ==
  /\ k \in Unexpired
  /\ sessions' = [evict_expired EXCEPT ![k].last_used = now]
  /\ UNCHANGED <<now, keys_drawn>>

\* snapshot_map(k) found none.
SnapshotMiss(k) ==
  /\ k \notin Unexpired
  /\ sessions' = evict_expired
  /\ UNCHANGED <<now, keys_drawn>>

restore_map(k) == sessions[k].placeholder_to_secret

\* gauges() also sweeps before it counts.
Gauges ==
  /\ sessions' = evict_expired
  /\ UNCHANGED <<now, keys_drawn>>

Tick ==
  /\ now < MaxTime
  /\ now' = now + 1
  /\ UNCHANGED <<sessions, keys_drawn>>

StoreInit ==
  /\ now = 0
  /\ sessions = EmptyMap
  /\ keys_drawn = 0

StoreNext ==
  \/ \E k \in Key, F \in SUBSET Finding : WithSession(k, F)
  \/ \E k \in Key : SnapshotHit(k)
  \/ \E k \in Key : SnapshotMiss(k)
  \/ Gauges
  \/ Tick

StoreSpec == StoreInit /\ [][StoreNext]_storeVars

-----------------------------------------------------------------------------
(* Properties. *)

RecordOK(rec) ==
  /\ rec = [hmac_key |-> rec.hmac_key,
            placeholder_to_secret |-> rec.placeholder_to_secret,
            secret_to_placeholder |-> rec.secret_to_placeholder,
            last_used |-> rec.last_used]
  /\ rec.hmac_key \in 1 .. keys_drawn
  /\ rec.last_used \in 0 .. now
  /\ rec.placeholder_to_secret
       \in [DOMAIN rec.placeholder_to_secret -> Value]
  /\ DOMAIN rec.placeholder_to_secret \subseteq Placeholder
  /\ rec.secret_to_placeholder
       \in [DOMAIN rec.secret_to_placeholder -> Placeholder]
  /\ DOMAIN rec.secret_to_placeholder \subseteq Finding

\* The shapes the Rust types give the store's state.
StoreTypeOK ==
  /\ now \in 0 .. MaxTime
  /\ keys_drawn \in 0 .. MaxRecords
  /\ DOMAIN sessions \subseteq Key
  /\ sessions = [k \in DOMAIN sessions |-> sessions[k]]
  /\ \A k \in DOMAIN sessions : RecordOK(sessions[k])

\* The two maps of a record stay inverse of one another: every finding's
\* placeholder leads back to exactly that finding's secret, and no placeholder
\* is held that no finding owns.  placeholder_for writes them separately.
MapsAgree ==
  \A k \in DOMAIN sessions :
    LET rec == sessions[k] IN
      /\ \A f \in DOMAIN rec.secret_to_placeholder :
           /\ rec.secret_to_placeholder[f] \in DOMAIN rec.placeholder_to_secret
           /\ rec.placeholder_to_secret[rec.secret_to_placeholder[f]] = f.value
      /\ \A p \in DOMAIN rec.placeholder_to_secret :
           \E f \in DOMAIN rec.secret_to_placeholder :
              rec.secret_to_placeholder[f] = p

\* Placeholders are session-scoped: no two live sessions share one, even for
\* the same secret, so what leaves the box does not link conversations.
SessionScoped ==
  \A j, k \in DOMAIN sessions :
    j # k => DOMAIN sessions[j].placeholder_to_secret
               \cap DOMAIN sessions[k].placeholder_to_secret = {}

\* A session used within the TTL is never dropped, re-keyed or made to forget
\* or change a placeholder, whatever operation on whatever key runs.
ActiveSessionRemembers ==
  [][\A k \in DOMAIN sessions :
       now - sessions[k].last_used < Ttl =>
         /\ k \in DOMAIN sessions'
         /\ sessions'[k].hmac_key = sessions[k].hmac_key
         /\ \A p \in DOMAIN sessions[k].placeholder_to_secret :
              /\ p \in DOMAIN sessions'[k].placeholder_to_secret
              /\ sessions'[k].placeholder_to_secret[p]
                   = sessions[k].placeholder_to_secret[p]]_storeVars

=============================================================================
