---------------------------- MODULE NewestWindow ----------------------------
(***************************************************************************)
(* What a sequence buffer promises its readers: the newest `bound'         *)
(* elements that were appended to it, oldest first.                        *)
(***************************************************************************)
EXTENDS Integers, Sequences

CONSTANTS
  Value,     \* the elements
  Bounds     \* the bounds a window may be given

VARIABLES
  window,    \* the elements a reader sees
  bound      \* how many it may hold; 0 before it is opened

windowVars == << window, bound >>

WInit == window = << >> /\ bound = 0

WOpen(n) == bound = 0 /\ bound' = n /\ window' = << >>

(* An element beyond the bound displaces the oldest one.                   *)
WAppend(v) ==
  /\ bound > 0
  /\ window' = IF Len(window) = bound THEN Append(Tail(window), v)
                                      ELSE Append(window, v)
  /\ bound' = bound

(* Widening keeps every element, or loses them all when memory is short:   *)
(* never a part of them, and never their order.                            *)
WWiden(n) ==
  /\ n > bound
  /\ bound > 0
  /\ bound' = n
  /\ window' = window \/ window' = << >>

WReset == window' = << >> /\ bound' = bound

WClose == window' = << >> /\ bound' = 0

WNext ==
  \/ \E n \in Bounds : WOpen(n) \/ WWiden(n)
  \/ \E v \in Value : WAppend(v)
  \/ WReset
  \/ WClose

WSpec == WInit /\ [][WNext]_windowVars
=============================================================================
