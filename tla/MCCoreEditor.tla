--------------------------- MODULE MCCoreEditor ---------------------------
(* A small instance of CoreEditor for TLC. *)
EXTENDS CoreEditor, TLC

\* "x0", "w0" and "l0" are the drafts a new core starts with.  The configuration
\* of a draft has its letter in upper case; "w2" cannot be generated, and "L0" has
\* no key: the server stores "L1" for it.  "odd" is of an older release, read by
\* Xray as "x0", its errors unmentioned, and refused by the others.
Kinds == {"xray", "wg", "l2tp"}
Drafts == [xray |-> {"x0", "x1"}, wg |-> {"w0", "w2"}, l2tp |-> {"l0", "l1"}]
Configs == {"X0", "X1", "W0", "W2", "L0", "L1", "odd"}
Persisted == [x0 |-> "X0", x1 |-> "X1", w0 |-> "W0", l0 |-> "L0", l1 |-> "L1"]
ImportedXray == [c \in Configs |-> IF c = "X1" THEN "x1" ELSE "x0"]
ImportedWg == [c \in Configs |-> IF c = "W2" THEN "w2" ELSE "w0"]
ImportedL2tp == [c \in Configs |-> IF c = "L1" THEN "l1" ELSE "l0"]
Imported == [xray |-> ImportedXray, wg |-> ImportedWg, l2tp |-> ImportedL2tp]
Refused == [xray |-> Configs \ {"X0", "X1"}, wg |-> Configs \ {"W0", "W2"},
            l2tp |-> Configs \ {"L0", "L1"}]
Valid == [xray |-> {"X0", "X1"}, wg |-> {"W0", "W2"}, l2tp |-> {"L1"}]
FilledIn == [c \in Configs |-> IF c = "L0" THEN {"L1"} ELSE {c}]
FirstDraft == [xray |-> "x0", wg |-> "w0", l2tp |-> "l0"]
FirstText == [xray |-> "X0", wg |-> "W0", l2tp |-> "L0"]

XrayCore == [kind |-> "xray", name |-> "a", tags |-> FALSE, config |-> "odd"]
WgCore == [kind |-> "wg", name |-> "a", tags |-> FALSE, config |-> "odd"]
FirstCores == [c1 |-> XrayCore, c2 |-> WgCore]
=============================================================================
