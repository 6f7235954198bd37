------------------------- MODULE EmbedFallbackProofs -------------------------
(* Proofs about EmbedFallback, for any number of threads and texts.        *)
EXTENDS EmbedFallback, TLAPS

(* A thread inside embed() that holds an online key sees the switch made,  *)
(* and no thread asks the local service, or has its vector to store, under *)
(* an online key: the flag never goes back while a call is under way.      *)
KeyFollowsSwitch ==
  \A t \in Thread :
    /\ pc[t] \in {"lookup", "purge", "choose"} /\ backend[t] = "online"
         => useOnline
    /\ pc[t] = "local" => backend[t] = "local"
    /\ pc[t] = "store" /\ got[t] = "local" => backend[t] = "local"

KeyInv == TypeOK /\ KeyFollowsSwitch /\ OnlineKeyTruthful

(* A call that has ended with a vector has a real one.                     *)
(* (BadNeverServed needs nothing else beside TypeOK.)                      *)
ServedInv == TypeOK /\ BadNeverServed

-----------------------------------------------------------------------------
LEMMA InitTypeOK == Init => TypeOK
<1> SUFFICES ASSUME Init PROVE TypeOK
  OBVIOUS
<1>1. cache \in [Text \X Backend -> Backend \cup {"none", "bad"}]
  BY DEF Init
<1>2. backend \in [Thread -> Backend] /\ got \in [Thread -> Backend \cup {"none", "bad", "short"}]
  BY DEF Init, Backend
<1>. QED
  BY <1>1, <1>2 DEF Init, TypeOK, Pcs

LEMMA NextTypeOK == TypeOK /\ [Next]_vars => TypeOK'
<1> SUFFICES ASSUME TypeOK, [Next]_vars PROVE TypeOK'
  OBVIOUS
<1> USE DEF TypeOK, Pcs, Backend
<1>1. ASSUME NEW t \in Thread, NEW x \in Text, Begin(t, x) PROVE TypeOK'
  BY <1>1 DEF Begin, BackendKey
<1>2. ASSUME NEW t \in Thread, Lookup(t) PROVE TypeOK'
  BY <1>2 DEF Lookup, AfterMiss
<1>3. ASSUME NEW t \in Thread, Purge(t) PROVE TypeOK'
  BY <1>3 DEF Purge, AfterMiss
<1>4. ASSUME NEW t \in Thread, Choose(t) PROVE TypeOK'
  BY <1>4 DEF Choose
<1>5. ASSUME NEW t \in Thread, ServiceReturns(t) PROVE TypeOK'
  BY <1>5 DEF ServiceReturns, Asks
<1>6. ASSUME NEW t \in Thread, ServiceFails(t) PROVE TypeOK'
  BY <1>6 DEF ServiceFails, Asks
<1>7. ASSUME NEW t \in Thread, ShortAnswer(t) PROVE TypeOK'
  BY <1>7 DEF ShortAnswer, Asks
<1>7a. ASSUME NEW t \in Thread, NoticeFailure(t) PROVE TypeOK'
  BY <1>7a DEF NoticeFailure
<1>7b. ASSUME NEW t \in Thread, Switch(t) PROVE TypeOK'
  BY <1>7b DEF Switch
<1>8. ASSUME NEW t \in Thread, Store(t) PROVE TypeOK'
  BY <1>8 DEF Store
<1>9. ASSUME NEW t \in Thread, End(t) PROVE TypeOK'
  BY <1>9 DEF End
<1>10. CASE Restart
  BY <1>10 DEF Restart
<1>11. ASSUME NEW k \in Text \X Backend, DamageRow(k) PROVE TypeOK'
  BY <1>11 DEF DamageRow
<1>12. CASE UNCHANGED vars
  BY <1>12 DEF vars
<1>. QED
  BY <1>1, <1>2, <1>3, <1>4, <1>5, <1>6, <1>7, <1>7a, <1>7b, <1>8,
     <1>9, <1>10, <1>11, <1>12 DEF Next, Step

(* Type correctness of the client, its threads and its cache; a thread     *)
(* only gets to cache.set with a vector.                                   *)
THEOREM TypeCorrect == Spec => []TypeOK
<1>. QED
  BY InitTypeOK, NextTypeOK, PTL DEF Spec

-----------------------------------------------------------------------------
LEMMA NextKeyInv == KeyInv /\ [Next]_vars => KeyFollowsSwitch'
<1> SUFFICES ASSUME KeyInv, [Next]_vars PROVE KeyFollowsSwitch'
  OBVIOUS
<1> USE DEF KeyInv, KeyFollowsSwitch, TypeOK, Backend
<1>1. ASSUME NEW t \in Thread, NEW x \in Text, Begin(t, x)
      PROVE  KeyFollowsSwitch'
  BY <1>1 DEF Begin, BackendKey
<1>2. ASSUME NEW t \in Thread, Lookup(t) PROVE KeyFollowsSwitch'
  BY <1>2 DEF Lookup, AfterMiss
<1>3. ASSUME NEW t \in Thread, Purge(t) PROVE KeyFollowsSwitch'
  BY <1>3 DEF Purge, AfterMiss
<1>4. ASSUME NEW t \in Thread, Choose(t) PROVE KeyFollowsSwitch'
  BY <1>4 DEF Choose
<1>5. ASSUME NEW t \in Thread, ServiceReturns(t) PROVE KeyFollowsSwitch'
  BY <1>5 DEF ServiceReturns, Asks
<1>6. ASSUME NEW t \in Thread, ServiceFails(t) PROVE KeyFollowsSwitch'
  BY <1>6 DEF ServiceFails, Asks
<1>7. ASSUME NEW t \in Thread, ShortAnswer(t) PROVE KeyFollowsSwitch'
  BY <1>7 DEF ShortAnswer, Asks
<1>7a. ASSUME NEW t \in Thread, NoticeFailure(t) PROVE KeyFollowsSwitch'
  BY <1>7a DEF NoticeFailure
<1>7b. ASSUME NEW t \in Thread, Switch(t) PROVE KeyFollowsSwitch'
  BY <1>7b DEF Switch
<1>8. ASSUME NEW t \in Thread, Store(t) PROVE KeyFollowsSwitch'
  BY <1>8 DEF Store
<1>9. ASSUME NEW t \in Thread, End(t) PROVE KeyFollowsSwitch'
  BY <1>9 DEF End
<1>10. CASE Restart
  BY <1>10 DEF Restart
<1>11. ASSUME NEW k \in Text \X Backend, DamageRow(k) PROVE KeyFollowsSwitch'
  BY <1>11 DEF DamageRow
<1>12. CASE UNCHANGED vars
  BY <1>12 DEF vars
<1>. QED
  BY <1>1, <1>2, <1>3, <1>4, <1>5, <1>6, <1>7, <1>7a, <1>7b, <1>8,
     <1>9, <1>10, <1>11, <1>12 DEF Next, Step

(* The cache is only written by Store, Purge and damage, and what a Store  *)
(* writes follows from the key of its thread.                              *)
LEMMA NextOnlineKey == KeyInv /\ [Next]_vars => OnlineKeyTruthful'
<1> SUFFICES ASSUME KeyInv, [Next]_vars, NEW x \in Text
             PROVE  cache'[<<x, "online">>] # "local"
  BY DEF OnlineKeyTruthful
<1>1. cache[<<x, "online">>] # "local"
  BY DEF KeyInv, OnlineKeyTruthful
<1>2. cache \in [Text \X Backend -> Backend \cup {"none", "bad"}]
      /\ <<x, "online">> \in Text \X Backend
  BY DEF KeyInv, TypeOK, Backend
<1>3. CASE UNCHANGED cache
  BY <1>1, <1>3
<1>4. ASSUME NEW t \in Thread, Store(t)
      PROVE  cache'[<<x, "online">>] # "local"
  BY <1>1, <1>2, <1>4 DEF Store, KeyInv, KeyFollowsSwitch, TypeOK
<1>5. ASSUME NEW t \in Thread, Purge(t)
      PROVE  cache'[<<x, "online">>] # "local"
  BY <1>1, <1>2, <1>5 DEF Purge
<1>6. ASSUME NEW k \in Text \X Backend, DamageRow(k)
      PROVE  cache'[<<x, "online">>] # "local"
  BY <1>1, <1>2, <1>6 DEF DamageRow
<1>. QED
  BY <1>3, <1>4, <1>5, <1>6
  DEF Next, Step, vars, Begin, Lookup, Choose, ServiceReturns, ServiceFails,
      ShortAnswer, NoticeFailure, Switch, End, Restart

(* Whatever the threads interleave, an online key never holds a local      *)
(* vector: embed() can poison the local key only.                          *)
THEOREM OnlineKeyIsTruthful == Spec => []OnlineKeyTruthful
<1>1. Init => KeyInv
  BY InitTypeOK DEF Init, KeyInv, KeyFollowsSwitch, OnlineKeyTruthful, Backend
<1>2. KeyInv /\ [Next]_vars => KeyInv'
  BY NextTypeOK, NextKeyInv, NextOnlineKey DEF KeyInv
<1>3. KeyInv => OnlineKeyTruthful
  BY DEF KeyInv
<1>. QED
  BY <1>1, <1>2, <1>3, PTL DEF Spec

-----------------------------------------------------------------------------
(* What embed() returns is a vector: rows that do not decode are purged,   *)
(* also when the deletion fails.                                           *)
THEOREM DamagedRowsNotServed == Spec => []BadNeverServed
<1>1. Init => ServedInv
  BY InitTypeOK DEF Init, ServedInv, BadNeverServed
<1>2. ASSUME ServedInv, [Next]_vars PROVE BadNeverServed'
  <2> SUFFICES ASSUME NEW t \in Thread, pc'[t] = "done"
               PROVE  got'[t] \in Backend
    BY DEF BadNeverServed
  <2>1. TypeOK /\ (pc[t] = "done" => got[t] \in Backend)
    BY <1>2 DEF ServedInv, BadNeverServed
  <2>2. ASSUME NEW s \in Thread, Lookup(s) PROVE got'[t] \in Backend
    BY <2>1, <2>2 DEF Lookup, TypeOK, AfterMiss
  <2>3. ASSUME NEW s \in Thread, Store(s) PROVE got'[t] \in Backend
    BY <2>1, <2>3 DEF Store, TypeOK
  <2>4. ASSUME NEW s \in Thread,
               \/ \E x \in Text : Begin(s, x)
               \/ Purge(s) \/ Choose(s) \/ ServiceReturns(s)
               \/ ShortAnswer(s) \/ ServiceFails(s) \/ NoticeFailure(s)
               \/ Switch(s) \/ End(s)
        PROVE  got'[t] \in Backend
    BY <2>1, <2>4 DEF Begin, Purge, Choose, ServiceReturns, ShortAnswer,
                      ServiceFails, NoticeFailure, Switch, End, TypeOK,
                      AfterMiss
  <2>5. CASE Restart \/ (\E k \in Text \X Backend : DamageRow(k))
             \/ UNCHANGED vars
    BY <2>1, <2>5 DEF Restart, DamageRow, vars
  <2>. QED
    BY <1>2, <2>2, <2>3, <2>4, <2>5 DEF Next, Step
<1>3. ServedInv /\ [Next]_vars => ServedInv'
  BY <1>2, NextTypeOK DEF ServedInv
<1>. QED
  BY <1>1, <1>3, PTL DEF Spec, ServedInv

-----------------------------------------------------------------------------
(* With one thread nobody switches the client behind a call's back.        *)
OneThread == \A s, t \in Thread : s = t

(* The key of a call is then the one of the service it asks, the client    *)
(* has not switched while it asks the local one, and a call that fails     *)
(* after the switch has asked the online one, if it could.                 *)
CallFollowsSwitch ==
  \A t \in Thread :
    /\ pc[t] \in {"lookup", "purge", "choose"} => backend[t] = BackendKey
    /\ pc[t] \in {"lookup", "purge"} /\ retry[t] => useOnline
    /\ pc[t] = "choose" => ~retry[t]
    /\ pc[t] = "local" => backend[t] = "local" /\ ~useOnline /\ ~retry[t]
    /\ pc[t] = "online" => backend[t] = "online" /\ useOnline
    /\ pc[t] = "store" => got[t] = backend[t]
    /\ pc[t] = "failed" /\ useOnline /\ OnlineKey => "online" \in tried[t]

RaisesAfterFallback(t) ==
  pc[t] = "raised" =>
    \/ got[t] = "short"
    \/ useOnline /\ (OnlineKey => "online" \in tried[t])

SeqInv == TypeOK /\ CallFollowsSwitch /\ CacheTruthful /\ FallbackTried

LEMMA NextSeqInv ==
  OneThread /\ SeqInv /\ [Next]_vars => CallFollowsSwitch' /\ FallbackTried'
<1> SUFFICES ASSUME OneThread, SeqInv, [Next]_vars, NEW t \in Thread
             PROVE  /\ CallFollowsSwitch!(t)'
                    /\ RaisesAfterFallback(t)'
  BY DEF CallFollowsSwitch, FallbackTried, RaisesAfterFallback
<1>0. /\ CallFollowsSwitch!(t)
      /\ RaisesAfterFallback(t)
  BY DEF SeqInv, CallFollowsSwitch, FallbackTried, RaisesAfterFallback
<1> USE DEF SeqInv, TypeOK, Backend, BackendKey, OneThread,
            RaisesAfterFallback
<1>1. ASSUME NEW x \in Text, Begin(t, x)
      PROVE  /\ CallFollowsSwitch!(t)'
             /\ RaisesAfterFallback(t)'
  BY <1>0, <1>1 DEF Begin
<1>2. CASE Lookup(t)
  BY <1>0, <1>2 DEF Lookup, AfterMiss
<1>3. CASE Purge(t)
  BY <1>0, <1>3 DEF Purge, AfterMiss
<1>4. CASE Choose(t)
  BY <1>0, <1>4 DEF Choose
<1>5. CASE ServiceReturns(t)
  BY <1>0, <1>5 DEF ServiceReturns, Asks
<1>6. CASE ServiceFails(t)
  BY <1>0, <1>6 DEF ServiceFails, Asks
<1>7. CASE ShortAnswer(t)
  BY <1>0, <1>7 DEF ShortAnswer, Asks
<1>7a. CASE NoticeFailure(t)
  BY <1>0, <1>7a DEF NoticeFailure
<1>7b. CASE Switch(t)
  BY <1>0, <1>7b DEF Switch
<1>8. CASE Store(t)
  BY <1>0, <1>8 DEF Store
<1>9. CASE End(t)
  BY <1>0, <1>9 DEF End
<1>10. CASE Restart
  BY <1>0, <1>10 DEF Restart
<1>11. ASSUME NEW k \in Text \X Backend, DamageRow(k)
       PROVE  /\ CallFollowsSwitch!(t)'
              /\ RaisesAfterFallback(t)'
  BY <1>0, <1>11 DEF DamageRow
<1>12. CASE UNCHANGED vars
  BY <1>0, <1>12 DEF vars
<1>13. \A s \in Thread : s = t
  BY DEF OneThread
<1>. QED
  BY <1>1, <1>2, <1>3, <1>4, <1>5, <1>6, <1>7, <1>7a, <1>7b, <1>8,
     <1>9, <1>10, <1>11, <1>12, <1>13 DEF Next, Step

LEMMA NextTruthful == SeqInv /\ [Next]_vars => CacheTruthful'
<1> SUFFICES ASSUME SeqInv, [Next]_vars, NEW k \in Text \X Backend
             PROVE  cache'[k] \in {"none", "bad", k[2]}
  BY DEF CacheTruthful
<1>1. cache[k] \in {"none", "bad", k[2]}
  BY DEF SeqInv, CacheTruthful
<1>2. cache \in [Text \X Backend -> Backend \cup {"none", "bad"}]
  BY DEF SeqInv, TypeOK
<1>3. CASE UNCHANGED cache
  BY <1>1, <1>3
<1>4. ASSUME NEW t \in Thread, Store(t)
      PROVE  cache'[k] \in {"none", "bad", k[2]}
  BY <1>1, <1>2, <1>4 DEF Store, SeqInv, CallFollowsSwitch, TypeOK
<1>5. ASSUME NEW t \in Thread, Purge(t)
      PROVE  cache'[k] \in {"none", "bad", k[2]}
  BY <1>1, <1>2, <1>5 DEF Purge
<1>6. ASSUME NEW j \in Text \X Backend, DamageRow(j)
      PROVE  cache'[k] \in {"none", "bad", k[2]}
  BY <1>1, <1>2, <1>6 DEF DamageRow
<1>. QED
  BY <1>3, <1>4, <1>5, <1>6
  DEF Next, Step, vars, Begin, Lookup, Choose, ServiceReturns, ServiceFails,
      ShortAnswer, NoticeFailure, Switch, End, Restart

LEMMA SeqInvariance == OneThread /\ Spec => []SeqInv
<1>1. Init => SeqInv
  BY InitTypeOK DEF Init, SeqInv, CallFollowsSwitch, CacheTruthful,
                    FallbackTried
<1>2. OneThread /\ SeqInv /\ [Next]_vars => SeqInv'
  BY NextTypeOK, NextSeqInv, NextTruthful DEF SeqInv
<1>. QED
  <2>. SUFFICES ASSUME OneThread PROVE Spec => []SeqInv
    OBVIOUS
  <2>1. SeqInv /\ [Next]_vars => SeqInv'
    BY <1>2
  <2>. QED
    BY <1>1, <2>1, PTL DEF Spec

(* A client used by one thread stores every vector under the key of the    *)
(* service that computed it, through failures, the switch and restarts.    *)
THEOREM SequentialCacheTruthful == OneThread /\ Spec => []CacheTruthful
<1>1. SeqInv => CacheTruthful
  BY DEF SeqInv
<1>. QED
  BY <1>1, SeqInvariance, PTL

(* A client used by one thread only raises after it turned to the online   *)
(* service, and asked it if there is a key for it, or after an answer      *)
(* without enough vectors.                                                 *)
THEOREM SequentialFallbackTried == OneThread /\ Spec => []FallbackTried
<1>1. SeqInv => FallbackTried
  BY DEF SeqInv
<1>. QED
  BY <1>1, SeqInvariance, PTL

=============================================================================
