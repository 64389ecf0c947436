----------------------------- MODULE MCDispatch -----------------------------
EXTENDS Replay

Good(m, p) == [form |-> "good", id |-> TRUE, method |-> m, params |-> p]
Noted(m, p) == [Good(m, p) EXCEPT !.id = FALSE]

Raw(s) == [shape |-> s, items |-> <<>>]
One(q) == [shape |-> "single", items |-> <<q>>]
Batch(s) == [shape |-> "batch", items |-> s]

Call == Good("tools/call", "known")
Level(p) == Good("logging/setLevel", p)
BadForm == [Good("ping", "none") EXCEPT !.form = "noVersion"]

TheMessages ==
    {Raw("blank"), Raw("huge"), Raw("unreadable"), Raw("garbage"),
     One(Good("initialize", "known")), One(Call), One(Level("known")),
     One(Good("resources/read", "endless")), One(Noted("other", "none")),
     One(Noted("notifications/cancelled", "unknown")),
     Batch(<<>>), Batch(<<Call, Call, Call, Call>>),
     Batch(<<Call, Level("known"), Level("none")>>),
     Batch(<<Good("prompts/get", "failing"), Noted("other", "none"), BadForm>>)}
=============================================================================
