------------------------------ MODULE MCDelivery ------------------------------
(* Small instances of Delivery for TLC. *)
EXTENDS Delivery, TLC

CONSTANTS m1, m2, a1, a2, b1, dA, dB, own, other, w1, w2

(* One message to one recipient each at two domains *)
OneMessage == {m1}
TwoDomains == {a1, b1}
ToBoth == [m \in OneMessage |-> TwoDomains]
DomainOfAddress == (a1 :> dA) @@ (a2 :> dA) @@ (b1 :> dB)

(* One message to two recipients at one domain *)
SameDomain == {a1, a2}
ToSame == [m \in OneMessage |-> SameDomain]

(* Two messages to one recipient *)
TwoMessages == {m1, m2}
OneAddress == {a1}
ToOne == [m \in TwoMessages |-> OneAddress]

FromOwn == [m \in TwoMessages |-> own]
FromOther == [m \in TwoMessages |-> other]

Faults(crash, error, stall, lost) ==
    ("crash" :> crash) @@ ("error" :> error) @@ ("stall" :> stall) @@ ("lost" :> lost)
NoFaults == Faults(0, 0, 0, 0)
OneStall == Faults(0, 0, 1, 0)
OneOfEach == Faults(1, 1, 0, 1)
CrashAndError == Faults(1, 1, 0, 0)

WorkerSymmetry == Permutations(Workers)
=============================================================================
