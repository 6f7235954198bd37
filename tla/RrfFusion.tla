------------------------------ MODULE RrfFusion ------------------------------
(***************************************************************************)
(* The arithmetic of a search: what search_kws.py, search_rrf.py and the   *)
(* server compute from lists of hits.  A hit is a chunk id <<doc, n>>, the *)
(* n-th chunk (from 0) of a document; lists are best first, so a score is  *)
(* a position in a list.  Nothing here has a state.                        *)
(*                                                                         *)
(* Weights are 1: no caller passes others.                                 *)
(***************************************************************************)
EXTENDS Integers, SequencesExt

CONSTANTS
  TopK,        \* results asked for
  Multiplier,  \* how much more is fetched and hydrated: 3 in the code
  RrfK         \* the constant of the fusion: 60 in the code

ASSUME FusionAssumption ==
  /\ TopK \in Nat \ {0}
  /\ Multiplier \in Nat \ {0}
  /\ RrfK \in Nat \ {0}

Fetch == TopK * Multiplier

FirstOf(s, k) == SubSeq(s, 1, IF Len(s) < k THEN Len(s) ELSE k)

(* The elements of s at these places, in their order.                      *)
Nth(places, k) ==
  CHOOSE p \in places : Cardinality({q \in places : q <= p}) = k

At(s, places) == [k \in 1 .. Cardinality(places) |-> s[Nth(places, k)]]

(* The highest scoring chunk of each document.                             *)
BestPerDoc(hits) ==
  At(hits, {m \in DOMAIN hits :
              \A l \in 1 .. (m - 1) : hits[l][1] # hits[m][1]})

(* WikiSearchClient.search for k results: the engine is asked for          *)
(* Multiplier times as many, because several may be of one document.       *)
KeywordHits(matches, k) ==
  FirstOf(BestPerDoc(FirstOf(matches, k * Multiplier)), k)

(* 1-based positions; the first occurrence of an id counts, so that one    *)
(* comes after the places up to which there is none.                       *)
Ranks(hits) ==
  [c \in ToSet(hits) |->
     1 + Cardinality({m \in DOMAIN hits : \A l \in 1 .. m : hits[l] # c})]

(* Sums of reciprocals are compared as fractions <<numerator, denominator>>*)
Reciprocal(ranks, c) ==
  IF c \in DOMAIN ranks THEN <<1, RrfK + ranks[c]>> ELSE <<0, 1>>

Score(text, vector, c) ==
  LET t == Reciprocal(text, c)
      v == Reciprocal(vector, c)
  IN  <<t[1] * v[2] + v[1] * t[2], t[2] * v[2]>>

AtLeast(p, q) == p[1] * q[2] >= q[1] * p[2]

(* The fused rankings: the next is always one of the best of the rest.     *)
(* Equal scores come in the order of a Python set of strings, which        *)
(* differs from process to process.                                        *)
Fused(text, vector) ==
  LET ids == DOMAIN text \cup DOMAIN vector
      Best(rest) == {c \in rest : \A d \in rest :
                       AtLeast(Score(text, vector, c), Score(text, vector, d))}
      ranking[rest \in SUBSET ids] ==
        IF rest = {} THEN {<<>>}
        ELSE UNION {{<<c>> \o s : s \in ranking[rest \ {c}]} : c \in Best(rest)}
  IN  ranking[ids]

-----------------------------------------------------------------------------
(* From a ranking to results.                                              *)

(* RRFSearchClient.search walks the ranking until it has TopK results,     *)
(* which are those of the chunks that the text index knows.                *)
InProcess(ranked, known) ==
  FirstOf(At(ranked, {m \in DOMAIN ranked : ranked[m] \in known}), TopK)

(* Mutant of Window: no more than is asked for.                            *)
NarrowWindow(ranked) == FirstOf(ranked, TopK)

(* The server looks up a window at the head of the ranking only.           *)
Window(ranked) == FirstOf(ranked, Fetch)
=============================================================================
