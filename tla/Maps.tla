------------------------------- MODULE Maps --------------------------------
(***************************************************************************)
(* Finite maps as functions, and lists without repetition: the two data    *)
(* shapes (HashMap, Vec with retain/insert(0)) the runtime keeps its       *)
(* bookkeeping in.                                                         *)
(***************************************************************************)
EXTENDS Integers, Sequences, FiniteSets

\* The map with no entry.
NoEntries == [x \in {} |-> x]

\* HashMap::insert: the entry of k becomes v, whether or not k had one.
Put(f, k, v) == [x \in DOMAIN f \cup {k} |-> IF x = k THEN v ELSE f[x]]

\* HashMap::remove and HashMap::retain: the entries of the keys in S are gone.
Drop(f, S) == [x \in DOMAIN f \ S |-> f[x]]

\* HashMap::get: the value of k, or d when k has no entry.
Get(f, k, d) == IF k \in DOMAIN f THEN f[k] ELSE d

\* The elements of a list.
Elems(s) == {s[i] : i \in 1 .. Len(s)}

\* No element occurs twice.
NoDup(s) == \A i, j \in 1 .. Len(s) : s[i] = s[j] => i = j

\* Vec::insert(0, e).
Cons(e, s) == [i \in 1 .. Len(s) + 1 |-> IF i = 1 THEN e ELSE s[i - 1]]

\* The first position of e in a list it occurs in.
Pos(s, e) ==
  CHOOSE i \in 1 .. Len(s) : s[i] = e /\ \A j \in 1 .. i - 1 : s[j] # e

(***************************************************************************)
(* Vec::retain, given the positions S of what is retained: the elements of *)
(* s at these positions, in order.                                         *)
(***************************************************************************)
Sublist(s, S) ==
  [k \in 1 .. Cardinality(S) |-> s[CHOOSE i \in S : Cardinality({j \in S : j < i}) = k - 1]]

(***************************************************************************)
(* Vec::retain(|x| x != e) on a list in which e occurs at most once: the   *)
(* elements behind e move up by one.  It is index based so that the provers*)
(* can follow it; MCWindowManager compares it with SelectSeq.              *)
(***************************************************************************)
Without(s, e) ==
  IF e \notin Elems(s) THEN s
  ELSE [i \in 1 .. Len(s) - 1 |-> IF i < Pos(s, e) THEN s[i] ELSE s[i + 1]]
============================================================================
