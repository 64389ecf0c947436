----------------------------- MODULE Redaction -----------------------------
(***************************************************************************)
(* The two redactions of src/src/server.rs: redact_for_log, which looks    *)
(* for the forms of credentials in what is logged, and mask_secrets, which *)
(* looks for the values of environment variables in what tools return.     *)
(*                                                                         *)
(* A text is a sequence of signs.  For the log a sign is a word or a class *)
(* of characters, and the least lengths of values are scaled down; for     *)
(* mask_secrets it is a letter.  A span is <<first, last>>, both included; *)
(* spans that the code sorts are a set, of which the first is taken.       *)
(* X_Y is X with the bug Y (see Vault).                                    *)
(***************************************************************************)
EXTENDS Integers, Sequences, SequencesExt, FiniteSetsExt

CONSTANTS TextLength,                \* the longest text for the log, ...
          OutputLength,              \* ... and for mask_secrets
          Environment,               \* variables: [listed, value]
          MinBearer, MinKey, MinSecret

ASSUME RedAssumption ==
    /\ {TextLength, OutputLength, MinBearer, MinKey, MinSecret} \subseteq Nat \ {0}
    /\ \A e \in Environment : e.listed \in BOOLEAN /\ e.value \in Seq(STRING)

\* "auth" is "authorization:", "bearer" and "key" are the words; "=" stands
\* for = alone, for it is both a separator and part of a value; " " for the
\* blanks and "n" for line ends; "-" is a sign no value has.
Value == {"bearer", "key", "=", "v"}
Separator == {"=", " ", "n"}
NoSpace == Value \cup {"auth", "-"}
Signs == NoSpace \cup {" ", "n"}

VARIABLES text, job, phase,
          todo,      \* spans to merge
          merged,    \* spans to replace
          out        \* the result

redVars == <<text, job, phase, todo, merged, out>>

RedTypeOK ==
    /\ job \in {"log", "mask"}
    /\ phase \in {"scan", "merge", "done"}
    /\ todo \subseteq (1 .. Len(text)) \X (1 .. Len(text))
    /\ merged \in Seq((1 .. Len(text)) \X (1 .. Len(text)))

Secrets ==
    {e.value : e \in {x \in Environment : x.listed /\ Len(x.value) >= MinSecret}}

RedInit ==
    /\ \/ job = "log" /\ text \in BoundedSeq(Signs, TextLength)
       \/ job = "mask" /\ text \in BoundedSeq(UNION {ToSet(e.value) : e \in Environment}, OutputLength)
    /\ phase = "scan"
    /\ todo = {} /\ merged = <<>> /\ out = <<>>

(***************************************************************************)
(* redact_for_log.                                                         *)
(***************************************************************************)

\* Where a loop that skips signs stops, from i on.
Skip(set, i) == Min({j \in i .. Len(text) + 1 : j = Len(text) + 1 \/ text[j] \notin set})

From(i, sign) == i <= Len(text) /\ text[i] = sign

HeaderSpans ==
    {<<i, Skip(NoSpace, Skip({" "}, Skip({" "}, i + 1) + 1)) - 1>> :
        i \in {k \in DOMAIN text :
            /\ text[k] = "auth"
            /\ From(Skip({" "}, k + 1), "bearer")
            /\ LET word == Skip({" "}, k + 1)
               IN  /\ From(word + 1, " ")
                   /\ Skip(NoSpace, Skip({" "}, word + 1)) > Skip({" "}, word + 1)}}

BearerSpans ==
    {<<i, Skip(Value, i + 2) - 1>> :
        i \in {k \in DOMAIN text :
            text[k] = "bearer" /\ From(k + 1, " ") /\ Skip(Value, k + 2) - (k + 2) >= MinBearer}}

KeySpans ==
    {<<i, Skip(Value, Skip(Separator, i + 1)) - 1>> :
        i \in {k \in DOMAIN text :
            LET value == Skip(Separator, k + 1)
            IN  text[k] = "key" /\ value > k + 1 /\ Skip(Value, value) - value >= MinKey}}

ScanLog ==
    /\ job = "log" /\ phase = "scan"
    /\ todo' = HeaderSpans \cup BearerSpans \cup KeySpans
    /\ phase' = "merge"
    /\ UNCHANGED <<text, job, merged, out>>

Precedes(a, b) == a[1] < b[1] \/ (a[1] = b[1] /\ a[2] <= b[2])

FirstSpan(spans) == CHOOSE s \in spans : \A r \in spans : Precedes(s, r)

Joined_LastEnd(last, span) == <<last[1], span[2]>>

Joined(last, span) == <<last[1], IF span[2] > last[2] THEN span[2] ELSE last[2]>>

\* One that begins before the last one has ended, or right there, joins it.
Merge ==
    /\ phase = "merge" /\ todo # {}
    /\ LET span == FirstSpan(todo)
       IN  /\ merged' =
                IF merged # <<>> /\ span[1] <= Last(merged)[2] + 1
                THEN Append(Front(merged), Joined(Last(merged), span))
                ELSE Append(merged, span)
           /\ todo' = todo \ {span}
    /\ UNCHANGED <<text, job, phase, out>>

(***************************************************************************)
(* mask_secrets_with_names.  The automaton (aho-corasick, with its default *)
(* match kind) reports the match that ends first, the longest of those,    *)
(* and goes on behind it; the order of the patterns has no effect.         *)
(***************************************************************************)
Occurrences == {s \in (1 .. Len(text)) \X (1 .. Len(text)) : SubSeq(text, s[1], s[2]) \in Secrets}

Ahead_SkipsOne ==
    {s \in Occurrences : merged = <<>> \/ s[1] > Last(merged)[2] + 1}

Ahead == {s \in Occurrences : merged = <<>> \/ s[1] > Last(merged)[2]}

FirstMatch(spans) ==
    CHOOSE s \in spans : \A r \in spans : s[2] < r[2] \/ (s[2] = r[2] /\ s[1] <= r[1])

MaskNext ==
    /\ job = "mask" /\ phase = "scan"
    /\ IF Ahead = {} THEN phase' = "merge" /\ UNCHANGED merged
       ELSE merged' = Append(merged, FirstMatch(Ahead)) /\ UNCHANGED phase
    /\ UNCHANGED <<text, job, todo, out>>

(***************************************************************************)
(* The end of both: the text between the spans, "#" for each of them.      *)
(***************************************************************************)
Between(k) ==
    SubSeq(text, IF k = 1 THEN 1 ELSE merged[k - 1][2] + 1,
                 IF k > Len(merged) THEN Len(text) ELSE merged[k][1] - 1)

Replace ==
    /\ phase = "merge" /\ todo = {}
    /\ out' = FlattenSeq([k \in 1 .. Len(merged) + 1 |->
                  Between(k) \o IF k <= Len(merged) THEN <<"#">> ELSE <<>>])
    /\ phase' = "done"
    /\ UNCHANGED <<text, job, todo, merged>>

RedNext == ScanLog \/ Merge \/ MaskNext \/ Replace

RedSpec == RedInit /\ [][RedNext]_redVars

-----------------------------------------------------------------------------
(* Properties.                                                             *)

\* A credential as the comments of redact_for_log describe it: a keyword,
\* separators and a value that is long enough, or the words of the header.
IsCredential(i, k, j) ==
    /\ \A x \in k .. j : text[x] \in Value
    /\ \/ /\ text[i] = "key"
          /\ \A x \in i + 1 .. k - 1 : text[x] \in Separator
          /\ text[k] \notin Separator
          /\ j - k + 1 >= MinKey
       \/ /\ text[i] = "bearer"
          /\ k = i + 2 /\ text[i + 1] = " "
          /\ j - k + 1 >= MinBearer
       \/ /\ text[i] = "auth"
          /\ \E w \in i + 1 .. k - 2 :
                /\ text[w] = "bearer"
                /\ \A x \in (i + 1 .. k - 1) \ {w} : text[x] = " "

\* What is logged has each run of positions that belong to a credential
\* replaced by one mark, however credentials overlap, and the rest as it was.
LogHidesCredentials ==
    job = "log" /\ phase = "done" =>
        LET spans == HeaderSpans \cup BearerSpans \cup KeySpans
            hidden == UNION {s[1] .. s[2] : s \in spans}
            Shown(x) == IF x \notin hidden THEN <<text[x]>>
                        ELSE IF x - 1 \in hidden THEN <<>> ELSE <<"#">>
        IN  /\ out = FlattenSeq([x \in DOMAIN text |-> Shown(x)])
            /\ \A i, j \in DOMAIN text :
                (\E k \in i + 2 .. j : IsCredential(i, k, j)) => i .. j \subseteq hidden

\* What a tool returns has no whole secret left in it (but for what the mark
\* itself may make up), and lost nothing that is not part of a secret.
MaskHidesSecrets ==
    job = "mask" /\ phase = "done" =>
        /\ \A i, j \in DOMAIN out :
              SubSeq(out, i, j) \notin {s \in Secrets : "#" \notin ToSet(s)}
        /\ \A x \in DOMAIN text :
            (\A s \in Occurrences : x \notin s[1] .. s[2]) =>
                \A s \in ToSet(merged) : x \notin s[1] .. s[2]
=============================================================================
