----------------------------- MODULE TermAliases -----------------------------
(***************************************************************************)
(* The term aliases of one query: _alias_codes and _canonical_twins of     *)
(* pushdown/aliasing.py, over the caches of QueryTerms (query_scope.py)    *)
(* that every DISTINCT, GROUP BY and COUNT of the query shares.            *)
(*                                                                         *)
(* Codes below zero stand for the query's constants outside the            *)
(* dictionary.  An IRI or a blank node is one term per spelling, so its    *)
(* code stands for its term; typed literals may be spelled in many ways.   *)
(***************************************************************************)
EXTENDS Integers, FiniteSets

CONSTANTS
  Literals,   \* the codes of typed literals a query meets
  Names,      \* the codes of IRIs and blank nodes
  IriLo,      \* _term_kind_bounds: the first code of an IRI
  Terms,      \* the literals' terms
  None        \* no code, no alias, unbound

Codes == Literals \cup Names

ASSUME AliasAssumption ==
  /\ Codes \subseteq Int
  /\ Literals \cap Names = {}
  /\ IriLo \in Nat
  /\ \A c \in Codes : c >= 0 => (c \in Names <=> c >= IriLo)
  /\ None \notin Codes \cup Terms
  /\ Terms \cap Codes = {}

VARIABLES
  term,       \* term[c]: the term literal code c decodes to
  rewritable, \* the literal codes whose spelling rdflib may rewrite
  lookup,     \* lookup[t]: the code encode() gives t's canonical spelling
  classified, \* QueryTerms.alias_classified
  firsts,     \* QueryTerms.alias_firsts: term -> code
  reps        \* QueryTerms.alias_reps: code -> code

file == <<term, rewritable, lookup>>
scope == <<classified, firsts, reps>>

Foreign(c) == c < 0
TermOf(c) == IF c \in Literals THEN term[c] ELSE c
RepOf(c) == IF c \in DOMAIN reps THEN reps[c] ELSE c

(* f, and g where f has no value.                                          *)
Over(f, g) == [x \in DOMAIN f \cup DOMAIN g |-> IF x \in DOMAIN f THEN f[x] ELSE g[x]]

(* A dictionary: a spelling rdflib keeps is its term's canonical one; a    *)
(* constant is foreign when the lookup of its canonical spelling misses,   *)
(* and has one code.  A lookup canonicalizes as the native parser does,    *)
(* and may find a code of another term.                                    *)
DictionaryOK ==
  /\ \A c \in Literals : ~Foreign(c) /\ c \notin rewritable => lookup[term[c]] = c
  /\ \A c \in Literals : Foreign(c) => c \in rewritable /\ lookup[term[c]] = None
  /\ \A c, d \in Literals : Foreign(c) /\ Foreign(d) /\ term[c] = term[d] => c = d
  /\ \A t \in Terms : lookup[t] # None => ~Foreign(lookup[t])

AliasInit ==
  /\ term \in [Literals -> Terms]
  /\ rewritable \in SUBSET Literals
  /\ lookup \in [Terms -> Literals \cup {None}]
  /\ DictionaryOK
  /\ classified = {}
  /\ firsts = [t \in {} |-> None]
  /\ reps = [c \in {} |-> None]

-----------------------------------------------------------------------------
(* _alias_codes over codes S.                                              *)

Pending(S) == {c \in Codes \ classified : c \in S /\ (Foreign(c) \/ c < IriLo)}

(* The codes classified now whose terms are built.                         *)
Typed(S) == Pending(S) \cap rewritable
NewTerms(S) == {term[c] : c \in Typed(S)} \ DOMAIN firsts
CodesOf(S, t) == {c \in Typed(S) : term[c] = t}

(* Mutant: the code looked up is taken without decoding it.               *)
TwinUnconfirmed(t) == lookup[t]

(* A term's canonical code, confirmed by decoding it.                      *)
Twin(t) ==
  IF lookup[t] # None /\ term[lookup[t]] = t THEN lookup[t] ELSE None

(* What represents a term first built from S: its twin, when a dictionary  *)
(* code carries it; else the first code that does, the constants last.     *)
Representatives(S, t) ==
  LET local == {c \in CodesOf(S, t) : ~Foreign(c)}
  IN  IF local # {} /\ Twin(t) # None THEN {Twin(t)}
      ELSE IF local # {} THEN local
      ELSE CodesOf(S, t)

Classify(S) ==
  \E chosen \in [NewTerms(S) -> UNION {Representatives(S, t) : t \in NewTerms(S)}] :
    /\ \A t \in NewTerms(S) : chosen[t] \in Representatives(S, t)
    /\ firsts' = Over(firsts, chosen)
    /\ reps' = Over([c \in {d \in Typed(S) : firsts'[term[d]] # d} |-> firsts'[term[c]]], reps)
    /\ classified' = classified \cup Pending(S)

(* The aliases of a caller that had those of before, over codes S.         *)
AliasesOf(S, before) == Over([c \in S \cap DOMAIN reps' |-> reps'[c]], before)

NoAliases == [c \in {} |-> None]
Alias(aliases, c) == IF c \in DOMAIN aliases THEN aliases[c] ELSE c

-----------------------------------------------------------------------------

(* Whatever calls of the query classified them, and in whatever batches,   *)
(* two codes have one representative just when they decode to one term.    *)
OneRepresentative ==
  \A c, d \in classified : RepOf(c) = RepOf(d) <=> TermOf(c) = TermOf(d)
=============================================================================
