----------------------------- MODULE MCTestRun ------------------------------
EXTENDS TestRun

T(kind, applies, versioned, mark) ==
    [kind |-> kind, applies |-> applies, versioned |-> versioned, mark |-> mark]
Tests == {T("plain", FALSE, FALSE, ""), T("compiler2", FALSE, FALSE, "")}
         \cup {T("fail", a, TRUE, m) : a \in BOOLEAN, m \in {"", "U", "X"}}
         \cup {T("crash", a, TRUE, m) : a \in BOOLEAN, m \in {"", "U", "X"}}
         \cup {T(k, TRUE, FALSE, "") : k \in {"fail", "crash"}}
Few == {T("plain", FALSE, FALSE, ""), T("fail", TRUE, TRUE, ""), T("crash", TRUE, TRUE, "U")}

MCPrograms == UNION {[1 .. n -> Tests] : n \in 0 .. 2} \cup [1 .. 3 -> Few]
=============================================================================
