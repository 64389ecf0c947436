-------------------------------- MODULE Glob --------------------------------
(***************************************************************************)
(* The matcher of path patterns, glob_like_match of src/src/policy.rs: one *)
(* loop over the components of a path, and inside it component_match, one  *)
(* over the bytes of a component.  A step is one turn of a loop.           *)
(*                                                                         *)
(* Case and the direction of slashes are folded before.  A byte is a       *)
(* letter or *, which may stand in the name of a file as well.  In a path  *)
(* a component is a letter, and of the patterns of components only * is    *)
(* one that fits more than itself.  Both loops share their variables here, *)
(* for a run is of one of them.  X_Y is X with the bug Y (see Vault).      *)
(***************************************************************************)
EXTENDS Integers, Sequences, SequencesExt

CONSTANTS Letters, GlobLength   \* the inputs: all sequences up to a length

ASSUME GlobAssumption == GlobLength \in Nat /\ {"*", "**"} \cap Letters = {}

VARIABLES glob,      \* level: which loop; value, pattern; verdict
          vi, pi,    \* where in the value and in the pattern
          star,      \* the place of the last wild card, or 0
          mark       \* the place it was met at (component_match only)

globVars == <<glob, vi, pi, star, mark>>

Inputs(wild) == BoundedSeq(Letters \cup wild, GlobLength)

GlobTypeOK ==
    /\ glob.level \in {"component", "path"}
    /\ glob.verdict \in {"open", "match", "no match"}
    /\ vi \in 1 .. Len(glob.value) + 1
    /\ pi \in 1 .. Len(glob.pattern) + 1
    /\ star \in 0 .. Len(glob.pattern)
    /\ mark \in 0 .. Len(glob.value) + 1

\* A pattern that is only a wild card matches at once.
Trivial(p) == p = <<"*">> \/ p = <<"**">>

GlobInit ==
    /\ \/ \E v, p \in Inputs({"*"}) :
              glob = [level |-> "component", value |-> v, pattern |-> p, verdict |-> "open"]
       \/ \E v \in Inputs({}) \ {<<>>}, p \in Inputs({"*", "**"}) \ {<<>>} :
              glob = [level |-> "path", value |-> v, pattern |-> p,
                      verdict |-> IF Trivial(p) THEN "match" ELSE "open"]
    /\ vi = 1 /\ pi = 1 /\ star = 0 /\ mark = 0

InValue == vi <= Len(glob.value)
InPattern == pi <= Len(glob.pattern)
PatternIs(c) == InPattern /\ glob.pattern[pi] = c

Verdict(match) ==
    /\ glob' = [glob EXCEPT !.verdict = IF match THEN "match" ELSE "no match"]
    /\ UNCHANGED <<vi, pi, star, mark>>

\* Only wild cards are left of the pattern.
RestIsWild(wild) == \A k \in pi .. Len(glob.pattern) : glob.pattern[k] = wild

Both ==
    /\ vi' = vi + 1 /\ pi' = pi + 1
    /\ UNCHANGED <<glob, star, mark>>

(***************************************************************************)
(* component_match.                                                        *)
(***************************************************************************)
AtComponent == glob.level = "component" /\ glob.verdict = "open"

SameByte == AtComponent /\ InValue /\ PatternIs(glob.value[vi]) /\ Both

Star ==
    /\ AtComponent /\ InValue /\ PatternIs("*") /\ glob.value[vi] # "*"
    /\ star' = pi /\ mark' = vi
    /\ pi' = pi + 1
    /\ UNCHANGED <<glob, vi>>

StuckByte ==
    AtComponent /\ InValue /\ ~PatternIs("*") /\ ~PatternIs(glob.value[vi])

StarTakesOneMore ==
    /\ StuckByte /\ star # 0
    /\ pi' = star + 1
    /\ mark' = mark + 1 /\ vi' = mark + 1
    /\ UNCHANGED <<glob, star>>

BytesDiffer == StuckByte /\ star = 0 /\ Verdict(FALSE)

ComponentEnds == AtComponent /\ ~InValue /\ Verdict(RestIsWild("*"))

(***************************************************************************)
(* glob_like_match.                                                        *)
(***************************************************************************)
AtPath == glob.level = "path" /\ glob.verdict = "open"

\* At the end of the pattern it takes all the rest.
GlobStar ==
    /\ AtPath /\ InValue /\ PatternIs("**")
    /\ IF pi = Len(glob.pattern) THEN Verdict(TRUE)
       ELSE /\ star' = pi /\ pi' = pi + 1
            /\ UNCHANGED <<glob, vi, mark>>

FitsComponent == PatternIs(glob.value[vi]) \/ PatternIs("*")

SameComponent == AtPath /\ InValue /\ FitsComponent /\ Both

StuckComponent == AtPath /\ InValue /\ ~PatternIs("**") /\ ~FitsComponent

\* Unlike Star it does not go back to the component it has tried.
GlobStarTakesOneMore_All ==
    /\ StuckComponent /\ star # 0
    /\ pi' = star + 2 /\ vi' = vi + 1
    /\ UNCHANGED <<glob, star, mark>>

GlobStarTakesOneMore ==
    /\ StuckComponent /\ star # 0
    /\ pi' = star + 1 /\ vi' = vi + 1
    /\ UNCHANGED <<glob, star, mark>>

ComponentsDiffer == StuckComponent /\ star = 0 /\ Verdict(FALSE)

PathEnds == AtPath /\ ~InValue /\ Verdict(RestIsWild("**"))

GlobNext ==
    \/ SameByte \/ Star \/ StarTakesOneMore \/ BytesDiffer \/ ComponentEnds
    \/ GlobStar \/ SameComponent \/ GlobStarTakesOneMore
    \/ ComponentsDiffer \/ PathEnds

GlobSpec == GlobInit /\ [][GlobNext]_globVars

-----------------------------------------------------------------------------
(* Properties.                                                             *)

\* What a pattern means: wild stands for any sequence, one for any element.
Means(v, p, wild, one) ==
    LET m[at \in (1 .. Len(v) + 1) \X (1 .. Len(p) + 1)] ==
            LET i == at[1]  j == at[2]
            IN  IF j > Len(p) THEN i > Len(v)
                ELSE IF p[j] = wild
                     THEN m[<<i, j + 1>>] \/ (i <= Len(v) /\ m[<<i + 1, j>>])
                     ELSE i <= Len(v) /\ p[j] \in {v[i], one} /\ m[<<i + 1, j + 1>>]
    IN  m[<<1, 1>>]

\* The loop over bytes finds only what the pattern means, and all of it,
\* whatever it has to take back, in a name without *: the * of a pattern may
\* be spent on that of a name (*ab does not match *b).
ComponentsAsMeant ==
    glob.level = "component" /\ glob.verdict # "open" =>
        LET meant == Means(glob.value, glob.pattern, "*", "*")
        IN  /\ glob.verdict = "match" => meant
            /\ meant /\ "*" \notin ToSet(glob.value) => glob.verdict = "match"

PathMeant == Trivial(glob.pattern) \/ Means(glob.value, glob.pattern, "**", "*")

\* What stands behind a ** of the pattern is in the value at most once.
FollowersOnce ==
    LET p == glob.pattern
        v == glob.value
    IN  \A k \in 1 .. Len(p) - 1 :
            p[k] = "**" => /\ p[k + 1] \in Letters
                           /\ \A i, j \in DOMAIN v : v[i] = p[k + 1] /\ v[j] = p[k + 1] => i = j

\* A path that matches is one the pattern means; and one it means matches,
\* provided the loop need not go back in the path: where what follows a **
\* occurs a second time it may miss a match (a/a does not match **/a).
PathsAsMeant ==
    glob.level = "path" /\ glob.verdict # "open" =>
        /\ glob.verdict = "match" => PathMeant
        /\ PathMeant /\ FollowersOnce => glob.verdict = "match"

\* Both loops.
MatchesAsMeant == ComponentsAsMeant /\ PathsAsMeant
=============================================================================
