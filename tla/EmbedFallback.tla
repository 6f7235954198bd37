---------------------------- MODULE EmbedFallback ----------------------------
(***************************************************************************)
(* EmbeddingClient.embed of tools/wikipedia_offline/search_vector.py with  *)
(* the persistent vector cache of storage/search_vector_cache.py.  One     *)
(* client is shared by all threads of the server's vector pool; its flag   *)
(* _use_online is switched, without a lock and for the life of the         *)
(* process, by the threads whose local embedding fails first. Every caller *)
(* embeds one query, so a call has one text.                               *)
(*                                                                         *)
(* A vector is abstracted to the service that computed it; the cache maps  *)
(* a text and a backend key to a vector, to nothing, or to a row that no   *)
(* longer decodes.                                                         *)
(***************************************************************************)
EXTENDS FiniteSets

CONSTANTS
  Thread,     \* threads of the vector pool
  Text,       \* query texts
  OnlineKey   \* TRUE iff AIHUBMIX_EMBEDDING_API_KEY is set

ASSUME ConstantsAssumption == OnlineKey \in BOOLEAN

Backend == {"local", "online"}   \* what _backend_key tells apart
Pcs == {"idle", "lookup", "purge", "choose", "local", "online", "failed",
        "switching", "store", "done", "raised"}

VARIABLES
  useOnline,  \* _use_online
  cache,      \* the SQLite vector cache, which outlives the process
  pc,         \* where a thread is in embed()
  text,       \* its argument
  backend,    \* its variable `backend`
  retry,      \* it is in the except clause, after the switch
  got,        \* the vector it has; "short": a service answered without one
  tried       \* services it has asked (for the properties only)

vars == <<useOnline, cache, pc, text, backend, retry, got, tried>>

TypeOK ==
  /\ useOnline \in BOOLEAN
  /\ cache \in [Text \X Backend -> Backend \cup {"none", "bad"}]
  /\ pc \in [Thread -> Pcs]
  /\ text \in [Thread -> Text]
  /\ backend \in [Thread -> Backend]
  /\ retry \in [Thread -> BOOLEAN]
  /\ got \in [Thread -> Backend \cup {"none", "bad", "short"}]
  /\ tried \in [Thread -> SUBSET Backend]
  /\ \A t \in Thread : pc[t] = "store" => got[t] \in Backend

Init ==
  /\ useOnline = FALSE
  /\ cache = [k \in Text \X Backend |-> "none"]
  /\ pc = [t \in Thread |-> "idle"]
  /\ text \in [Thread -> Text]
  /\ backend = [t \in Thread |-> "local"]
  /\ retry = [t \in Thread |-> FALSE]
  /\ got = [t \in Thread |-> "none"]
  /\ tried = [t \in Thread |-> {}]

-----------------------------------------------------------------------------

BackendKey == IF useOnline THEN "online" ELSE "local"

(* embed(x) is called: the backend key is computed once, at the start.     *)
Begin(t, x) ==
  /\ pc[t] = "idle"
  /\ pc' = [pc EXCEPT ![t] = "lookup"]
  /\ text' = [text EXCEPT ![t] = x]
  /\ backend' = [backend EXCEPT ![t] = BackendKey]
  /\ retry' = [retry EXCEPT ![t] = FALSE]
  /\ got' = [got EXCEPT ![t] = "none"]
  /\ tried' = [tried EXCEPT ![t] = {}]
  /\ UNCHANGED <<useOnline, cache>>

(* Where a cache miss leads: to the request, after a switch online.        *)
AfterMiss(t) == IF retry[t] THEN "online" ELSE "choose"

(* cache.get(text, backend): a hit, a miss, or a row that does not decode. *)
(* A read that fails is handled like such a row; with the database file    *)
(* moved away or quarantined any row is a miss.                            *)
Lookup(t) ==
  /\ pc[t] = "lookup"
  /\ \/ /\ cache[<<text[t], backend[t]>>] \in Backend
        /\ got' = [got EXCEPT ![t] = cache[<<text[t], backend[t]>>]]
        /\ pc' = [pc EXCEPT ![t] = "done"]
     \/ /\ pc' \in {[pc EXCEPT ![t] = "purge"],
                    [pc EXCEPT ![t] = AfterMiss(t)]}
        /\ UNCHANGED got
  /\ UNCHANGED <<useOnline, cache, text, backend, retry, tried>>

(* get() deletes the row it could not decode and reports a miss, also when *)
(* the deletion fails.                                                     *)
Purge(t) ==
  /\ pc[t] = "purge"
  /\ cache' \in {cache, [cache EXCEPT ![<<text[t], backend[t]>>] = "none"]}
  /\ pc' = [pc EXCEPT ![t] = AfterMiss(t)]
  /\ UNCHANGED <<useOnline, text, backend, retry, got, tried>>

(* Mutant of Choose: the local service is always asked first.              *)
ChooseLocal(t) ==
  /\ pc[t] = "choose"
  /\ pc' = [pc EXCEPT ![t] = "local"]
  /\ UNCHANGED <<useOnline, cache, text, backend, retry, got, tried>>

(* `if self._use_online`: the flag is read again, after the lookup.        *)
Choose(t) ==
  /\ pc[t] = "choose"
  /\ pc' = [pc EXCEPT ![t] = IF useOnline THEN "online" ELSE "local"]
  /\ UNCHANGED <<useOnline, cache, text, backend, retry, got, tried>>

(* Thread t can ask the service it is at: _embed_online raises before any  *)
(* request when no key is set.                                             *)
Asks(t) == pc[t] = "local" \/ (pc[t] = "online" /\ OnlineKey)

(* The service answers with a vector for every text: _embed_local within   *)
(* its three attempts, or _embed_online.                                   *)
ServiceReturns(t) ==
  /\ Asks(t)
  /\ got' = [got EXCEPT ![t] = pc[t]]
  /\ tried' = [tried EXCEPT ![t] = @ \cup {pc[t]}]
  /\ pc' = [pc EXCEPT ![t] = "store"]
  /\ UNCHANGED <<useOnline, cache, text, backend, retry>>

(* The service answers with no or too few vectors: zip() passes over the   *)
(* missing ones, nothing is stored, and the check of `out` at the end      *)
(* raises, in the first request and in the retry, without a fallback.      *)
ShortAnswer(t) ==
  /\ Asks(t)
  /\ got' = [got EXCEPT ![t] = "short"]
  /\ tried' = [tried EXCEPT ![t] = @ \cup {pc[t]}]
  /\ pc' = [pc EXCEPT ![t] = "raised"]
  /\ UNCHANGED <<useOnline, cache, text, backend, retry>>

(* The service fails, or cannot be asked; a failure of the retry itself    *)
(* leaves embed().                                                         *)
ServiceFails(t) ==
  /\ pc[t] \in {"local", "online"}
  /\ tried' = [tried EXCEPT ![t] = IF Asks(t) THEN @ \cup {pc[t]} ELSE @]
  /\ pc' = [pc EXCEPT ![t] = IF retry[t] THEN "raised" ELSE "failed"]
  /\ UNCHANGED <<useOnline, cache, text, backend, retry, got>>

(* Mutant of NoticeFailure: every failure is retried from the start.       *)
RetryFromStart(t) ==
  /\ pc[t] = "failed"
  /\ useOnline' = TRUE
  /\ backend' = [backend EXCEPT ![t] = "online"]
  /\ pc' = [pc EXCEPT ![t] = "lookup"]
  /\ UNCHANGED <<cache, text, retry, got, tried>>

(* The except clause reads the flag: a thread that finds it set raises.    *)
NoticeFailure(t) ==
  /\ pc[t] = "failed"
  /\ pc' = [pc EXCEPT ![t] = IF useOnline THEN "raised" ELSE "switching"]
  /\ UNCHANGED <<useOnline, cache, text, backend, retry, got, tried>>

(* A thread that found it unset switches the client to the online service, *)
(* also when another one has switched it since, and retries.               *)
Switch(t) ==
  /\ pc[t] = "switching"
  /\ useOnline' = TRUE
  /\ backend' = [backend EXCEPT ![t] = "online"]
  /\ retry' = [retry EXCEPT ![t] = TRUE]
  /\ pc' = [pc EXCEPT ![t] = "lookup"]
  /\ UNCHANGED <<cache, text, got, tried>>

(* cache.set(text, backend, vector), with the key of the variable backend; *)
(* a failure to write is logged and passed over.                           *)
Store(t) ==
  /\ pc[t] = "store"
  /\ cache' \in {cache, [cache EXCEPT ![<<text[t], backend[t]>>] = got[t]]}
  /\ pc' = [pc EXCEPT ![t] = "done"]
  /\ UNCHANGED <<useOnline, text, backend, retry, got, tried>>

(* embed() has returned or raised; the thread is free for another call.    *)
End(t) ==
  /\ pc[t] \in {"done", "raised"}
  /\ pc' = [pc EXCEPT ![t] = "idle"]
  /\ UNCHANGED <<useOnline, cache, text, backend, retry, got, tried>>

(* The server stops and starts again: only the cache is left.              *)
Restart ==
  /\ useOnline' = FALSE
  /\ pc' = [t \in Thread |-> "idle"]
  /\ UNCHANGED <<cache, text, backend, retry, got, tried>>

(* A row is damaged on disk, or lost with a quarantined database file.     *)
DamageRow(k) ==
  /\ cache[k] # "none"
  /\ \E v \in {"bad", "none"} : cache' = [cache EXCEPT ![k] = v]
  /\ UNCHANGED <<useOnline, pc, text, backend, retry, got, tried>>

Step(t) ==
  \/ Lookup(t)
  \/ Purge(t)
  \/ Choose(t)
  \/ ServiceReturns(t)
  \/ ShortAnswer(t)
  \/ ServiceFails(t)
  \/ NoticeFailure(t)
  \/ Switch(t)
  \/ Store(t)

Next ==
  \/ \E t \in Thread : (\E x \in Text : Begin(t, x)) \/ Step(t) \/ End(t)
  \/ Restart
  \/ \E k \in Text \X Backend : DamageRow(k)

Spec == Init /\ [][Next]_vars

(* Pool threads keep running and both HTTP clients have timeouts.          *)
FairSpec == Spec /\ \A t \in Thread : WF_vars(Step(t))

-----------------------------------------------------------------------------
(* Properties.                                                             *)

(* The cache never confuses services: what is stored under a backend's key *)
(* was computed by that backend, also after restarts.                      *)
CacheTruthful ==
  \A k \in Text \X Backend : cache[k] \in {"none", "bad", k[2]}

(* With any number of threads the confusion only goes one way: the online  *)
(* key never gets a local vector.                                          *)
OnlineKeyTruthful ==
  \A x \in Text : cache[<<x, "online">>] # "local"

(* A damaged row is never served as a vector.                              *)
BadNeverServed ==
  \A t \in Thread : pc[t] = "done" => got[t] \in Backend

(* "local OpenAI-compatible, AiHubMix fallback": embed() only raises after *)
(* it has turned to the online service, and asked it if a key is set.  The *)
(* exception is an answer without enough vectors, of either service: that  *)
(* is no failure to embed(), and it raises without a fallback.             *)
FallbackTried ==
  \A t \in Thread : pc[t] = "raised" =>
    \/ got[t] = "short"
    \/ useOnline /\ (OnlineKey => "online" \in tried[t])

(* Every call returns or raises, however often services fail and other     *)
(* threads switch the client.                                              *)
EveryCallEnds ==
  \A t \in Thread : pc[t] = "lookup" ~> pc[t] \in {"idle", "done", "raised"}

=============================================================================
