----------------------------- MODULE Definitions -----------------------------
(***************************************************************************)
(* The definitions of played words (packages/app/src/definitions.rs): a    *)
(* durable cache in front of a provider on the network, and one lock per   *)
(* word so that requests for the same word share one call.  A request      *)
(* looks into the cache, waits for the lock, looks again, calls the        *)
(* provider and stores what it answers; it carries the time at which it    *)
(* arrived all the way, however long it waits.                             *)
(***************************************************************************)
EXTENDS Integers, FiniteSets

CONSTANTS
  Requests,
  GameWords,    \* the words the forms ask for
  FoundTtl,     \* SUCCESS_TTL_MS
  MissingTtl,   \* MISSING_TTL_MS
  Enabled,      \* whether a provider is configured
  Nobody,       \* no holder of a lock
  MaxClock,     \* bound of the exploration: the last time
  MaxLookups    \* bound of the exploration: how many lookups are made

VARIABLES
  clock,        \* the time requests see
  played,       \* the words of the game's move history
  cache,        \* the table definition_cache: a row of each word, or NoRow
  holder,       \* LOOKUP_LOCKS: which request holds the lock of each word
  request,      \* the state of each request
  lookups       \* how many lookups were made

definitionVars == <<clock, played, cache, holder, request, lookups>>

ASSUME TtlAssumption == FoundTtl \in Nat \ {0} /\ MissingTtl \in Nat \ {0}
ASSUME HolderAssumption == Nobody \notin Requests

NoRow == [status |-> "NONE", fetched |-> 0, expires |-> 0]
NotAsked == [phase |-> "idle"]

-----------------------------------------------------------------------------
(* The provider *)

\* What may come back: nothing, a status, or a body with one entry.
Responses ==
  {[kind |-> k] : k \in {"timeout", "unreachable"}}
    \cup [kind : {"status"}, status : {404, 429, 401, 503, 418}]
    \cup [kind : {"body"}, tooLarge : BOOLEAN, parses : BOOLEAN, meanings : 0..1,
          attributed : BOOLEAN]

Found == "FOUND"
Missing == "MISSING"

\* FreeDictionaryProvider::lookup, parse_provider_response and the reasons of
\* DefinitionUnavailableReason: a body without a meaning is a word the provider
\* does not know, whatever its license says.
Outcome(r) ==
  CASE r.kind = "timeout" -> "TimedOut"
    [] r.kind = "unreachable" -> "Unreachable"
    [] r.kind = "status" ->
         CASE r.status = 404 -> Missing
           [] r.status = 429 -> "RateLimited"
           [] r.status \in {401, 403} -> "ProviderRejected"
           [] r.status \in 500..599 -> "ProviderUnavailable"
           [] OTHER -> "InvalidResponse"
    [] r.kind = "body" ->
         IF r.tooLarge THEN "ResponseTooLarge"
         ELSE IF ~r.parses THEN "InvalidResponse"
         ELSE IF r.meanings = 0 THEN Missing
         ELSE IF ~r.attributed THEN "MissingAttribution" ELSE Found

-----------------------------------------------------------------------------
(* The cache *)

\* load_cached, of a request that arrived at `now`.
IsCached(word, now) == cache[word] # NoRow /\ cache[word].expires > now

\* What cache_result stores.
Row(status, now) ==
  [status |-> status, fetched |-> now,
   expires |-> now + (IF status = Found THEN FoundTtl ELSE MissingTtl)]

DefinitionsInit ==
  /\ clock = 0 /\ played = {} /\ lookups = 0
  /\ cache = [w \in GameWords |-> NoRow]
  /\ holder = [w \in GameWords |-> Nobody]
  /\ request = [r \in Requests |-> NotAsked]

Tick == clock < MaxClock /\ clock' = clock + 1
        /\ UNCHANGED <<played, cache, holder, request, lookups>>

\* A committed play puts a word into the history that has_played_word reads.
PlayWord(w) ==
  played' = played \cup {w} /\ UNCHANGED <<clock, cache, holder, request, lookups>>

Waits(r, phase, w) == request[r].phase = phase /\ request[r].word = w
Goto(r, phase) == request' = [request EXCEPT ![r].phase = phase]

\* A request that answers lets go of the lock it holds.
Answer(r) ==
  /\ request' = [request EXCEPT ![r] = NotAsked]
  /\ holder' = [w \in GameWords |-> IF holder[w] = r THEN Nobody ELSE holder[w]]

\* played_word_definition and the first look into the cache; a word that is not
\* in the history is refused.
BeginLookup(r, w) ==
  /\ request[r] = NotAsked /\ lookups < MaxLookups
  /\ w \in played
  /\ lookups' = lookups + 1
  /\ request' = [request EXCEPT ![r] =
                   IF IsCached(w, clock) THEN NotAsked
                   ELSE [phase |-> "waiting", word |-> w, now |-> clock]]
  /\ UNCHANGED <<clock, played, cache, holder>>

Lock(r, w) ==
  /\ Waits(r, "waiting", w) /\ holder[w] = Nobody
  /\ holder' = [holder EXCEPT ![w] = r]
  /\ Goto(r, "locked")
  /\ UNCHANGED <<clock, played, cache, lookups>>

\* Faulty: does not look into the cache again once it has the lock.
LookAgainNot(r, w) ==
  /\ Waits(r, "locked", w)
  /\ IF ~Enabled THEN Answer(r) ELSE Goto(r, "calling") /\ UNCHANGED holder
  /\ UNCHANGED <<clock, played, cache, lookups>>

\* The second look, under the lock.
LookAgain(r, w) ==
  /\ Waits(r, "locked", w)
  /\ IF IsCached(w, request[r].now) \/ ~Enabled
       THEN Answer(r) ELSE Goto(r, "calling") /\ UNCHANGED holder
  /\ UNCHANGED <<clock, played, cache, lookups>>

\* The provider answers; only a definition and a missing word are stored.
Call(r, w, response) ==
  /\ Waits(r, "calling", w)
  /\ IF Outcome(response) \in {Found, Missing}
       THEN /\ request' = [request EXCEPT ![r] =
                 [phase |-> "storing", word |-> w, now |-> @.now,
                  status |-> Outcome(response)]]
            /\ UNCHANGED holder
       ELSE Answer(r)
  /\ UNCHANGED <<clock, played, cache, lookups>>

\* cache_result.
Store(r, w) ==
  /\ Waits(r, "storing", w)
  /\ cache' = [cache EXCEPT ![w] = Row(request[r].status, request[r].now)]
  /\ Answer(r)
  /\ UNCHANGED <<clock, played, lookups>>

\* A query fails, or the request is dropped, at any await.
AbandonRequest(r) ==
  /\ request[r] # NotAsked
  /\ Answer(r)
  /\ UNCHANGED <<clock, played, cache, lookups>>

DefinitionsNext ==
  \/ Tick
  \/ \E w \in GameWords : PlayWord(w)
  \/ \E r \in Requests :
       \/ \E w \in GameWords :
            \/ BeginLookup(r, w) \/ Lock(r, w) \/ LookAgain(r, w) \/ Store(r, w)
            \/ \E response \in Responses : Call(r, w, response)
       \/ AbandonRequest(r)

DefinitionsSpec == DefinitionsInit /\ [][DefinitionsNext]_definitionVars

-----------------------------------------------------------------------------
(* Properties *)

\* What the provider answered is kept for as long as its row says: requests
\* that overlap, however long they wait for the lock or for the provider, do
\* not fetch a word again within the lifetime of what is stored, and never put
\* an older answer over a newer one.
RowsLiveOut ==
  [][\A w \in GameWords :
       cache'[w] # cache[w] /\ cache[w] # NoRow => cache'[w].fetched >= cache[w].expires]_cache
=============================================================================
