------------------------------ MODULE Matching ------------------------------
(***************************************************************************)
(* Where the value of a scheme argument lives.  Host variable matching and  *)
(* ownership classification annotate the arguments of every entry point of  *)
(* the suite's schemes: an argument is a constituent (advected), a variable *)
(* of the host, a value the suite owns, or has no source at all, which ends *)
(* the generation.                                                         *)
(*                                                                         *)
(* A case c is the metadata the passes read: c.args, the argument table of  *)
(* each entry point <<scheme, phase>>, c.groups, the schemes of each group, *)
(* c.array, the standard names that are arrays, and c.host, the kind of     *)
(* table (if any) in which the host declares each standard name, under the  *)
(* local name c.called, and c.dynamic, the names of the arrays schemes fill *)
(* with properties of constituents when they register.  An argument has a standard name, a local name, an  *)
(* intent and perhaps the advected mark.  Types, kinds, units and           *)
(* dimensions agree everywhere.                                            *)
(***************************************************************************)
EXTENDS Integers, Sequences, SequencesExt

CONSTANT NoVariable   \* the host declares no variable of this standard name

Writes(a) == a.intent \in {"out", "inout"}
Reads(a) == a.intent \in {"in", "inout"}

EntryPoints(c) == DOMAIN c.args
SchemesOf(c) == UNION {Range(c.groups[g]) : g \in DOMAIN c.groups}
ArgumentsOf(c, std) ==
  {p \in UNION {{e} \X Range(c.args[e]) : e \in EntryPoints(c)} : p[2].std = std}

-----------------------------------------------------------------------------
SuiteArguments(c, std) == {p \in ArgumentsOf(c, std) : p[1][1] \in SchemesOf(c)}

AdvectedDeclaring(c, std) == {p[1][1] : p \in {q \in SuiteArguments(c, std) : q[2].adv}}

NonAdvectedProducing(c, std) ==
  {p[1][1] : p \in {q \in SuiteArguments(c, std) : ~q[2].adv /\ Writes(q[2])}}

(* Every loaded scheme counts, and the argument itself.                    *)
ProducedInInit(c, std) == \E p \in ArgumentsOf(c, std) : Writes(p[2])

(* Another scheme says that the name is a constituent, and no scheme of the *)
(* suite produces it as anything else.                                     *)
Reclassified(c, scheme, a) ==
  /\ NonAdvectedProducing(c, a.std) = {}
  /\ AdvectedDeclaring(c, a.std) \ {scheme} # {}

MatchOf(c, scheme, a) ==
  CASE a.std \in c.dynamic                     -> "skipped"
    [] a.adv \/ Reclassified(c, scheme, a)     -> "advected"
    [] c.host[a.std] = "control"               -> "call_site"
    [] c.host[a.std] # NoVariable              -> "model_var"
    [] ProducedInInit(c, a.std)                -> "interstitial"
    [] OTHER                                   -> "unmatched"

Unmatched(c) ==
  \E std \in DOMAIN c.host : \E p \in SuiteArguments(c, std) :
    MatchOf(c, p[1][1], p[2]) = "unmatched"

(* arg_ownership_pass: the owner follows from the match.                   *)
OwnershipKind(match) ==
  CASE match \in {"skipped", "advected"} -> "CapScratch"
    [] match = "interstitial"          -> "SuiteOwned"
    [] match = "model_var"             -> "HostMatched"
    [] OTHER                           -> "Block"

Annotated(c, scheme, a) ==
  LET match == MatchOf(c, scheme, a)
  IN  [std |-> a.std, name |-> a.name, intent |-> a.intent,
       array |-> a.std \in c.array \cup c.dynamic,
       dynamic |-> a.std \in c.dynamic,
       owner |-> OwnershipKind(match),
       model |-> IF match = "model_var" THEN c.host[a.std] ELSE NoVariable]

Matched(c) ==
  [e \in EntryPoints(c) |->
     [i \in DOMAIN c.args[e] |-> Annotated(c, e[1], c.args[e][i])]]
=============================================================================
