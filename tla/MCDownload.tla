----------------------------- MODULE MCDownload -----------------------------
EXTENDS Download

Page(strips, mode) == [strips |-> strips, streaming |-> mode = "streaming"]

\* One to three pages: page 1 in normal mode and the others streaming, as the
\* Mac firmware sends them, every page in either mode, and pages and scans
\* just below, at and just above each limit.
Scans ==
    { <<Page(s, m)>> : s \in {<<40>>, <<40, 300>>, <<40, 16, 40>>},
                       m \in {"normal", "streaming"} }
    \cup { <<Page(s, m), Page(t, "streaming")>> :
             s \in {<<40>>, <<40, 40>>}, t \in {<<40>>, <<16, 255>>},
             m \in {"normal", "streaming"} }
    \cup { <<Page(<<40>>, "normal"), Page(<<40>>, "normal"),
             Page(<<40, 40>>, "streaming")>> }

\* Scans that exceed one limit each.
TooMuch ==
    { <<Page(<<10, 10, 10, 10>>, m)>> : m \in {"normal", "streaming"} }
    \cup { <<Page(<<300, 200>>, m)>> : m \in {"normal", "streaming"} }
    \cup { <<Page(<<s>>, "streaming")>> : s \in {322, 700} }
    \cup { <<Page(<<300>>, m), Page(<<301>>, m)>> :
             m \in {"normal", "streaming"} }
    \cup { [p \in 1..4 |-> Page(<<10>>, "normal")] }

AtLimit ==
    { <<Page(<<10, 10, 10>>, m)>> : m \in {"normal", "streaming"} }
    \cup { <<Page(<<300, 100>>, m)>> : m \in {"normal", "streaming"} }
    \cup { <<Page(<<321>>, "streaming")>>, <<Page(<<322>>, "normal")>> }
    \cup { <<Page(<<300>>, m), Page(<<300>>, m)>> :
             m \in {"normal", "streaming"} }
    \cup { [p \in 1..3 |-> Page(<<10>>, "normal")] }

Feeder == Scans \cup TooMuch \cup AtLimit
=============================================================================
