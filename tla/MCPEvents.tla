------------------------------ MODULE MCPEvents ------------------------------
(***************************************************************************)
(* Instances of PEvents: which threads make which calls.  "a" and "b" are  *)
(* auto-reset events, "m" and "n" manual-reset events.                     *)
(***************************************************************************)
EXTENDS PEvents

Call(op, evs, ms) == [op |-> op, evs |-> evs, ms |-> ms]
AnyOf(evs, ms)  == Call("WaitAny", evs, ms)
AllOf(evs, ms)  == Call("WaitAll", evs, ms)
On(e, ms)    == Call("WaitForEvent", <<e>>, ms)
Set(e)        == Call("SetEvent", <<e>>, "infinite")
ResetOf(e)    == Call("ResetEvent", <<e>>, "infinite")
Pulse(e)      == Call("PulseEvent", <<e>>, "infinite")
DestroyOf(e)  == Call("DestroyEvent", <<e>>, "infinite")

(* Every kind of wait against every operation, all events destroyed at the *)
(* end.                                                                    *)
MixedScript ==
  [w1 |-> << {AnyOf(<<"m", "a">>, "finite"), AllOf(<<"m", "a">>, "finite"), On("m", "zero"),
              AnyOf(<<"m", "a">>, "zero")},
             {AnyOf(<<"a">>, "finite"), On("a", "finite")} >>,
   w2 |-> << {AllOf(<<"m", "a">>, "finite"), AnyOf(<<"m", "a">>, "finite")} >>,
   s  |-> << {Set("m"), Set("a"), Pulse("m")}, {Set("m"), Set("a"), ResetOf("m")},
             {DestroyOf("a")}, {DestroyOf("m")} >>]
MixedThreads == DOMAIN MixedScript

(* Waits of all kinds without a time limit; no wait-any mixes both kinds   *)
(* of events.                                                              *)
LiveScript ==
  [w1 |-> << {AnyOf(<<"a", "b">>, "infinite"), AllOf(<<"m", "a">>, "infinite"), On("m", "infinite"),
              AnyOf(<<"m">>, "infinite")} >>,
   w2 |-> << {AnyOf(<<"b", "a">>, "infinite"), On("m", "infinite"), On("a", "infinite")} >>,
   s1 |-> << {Set("m"), Set("b"), Pulse("m")} >>,
   s2 |-> << {Set("a")} >>]
LiveThreads == DOMAIN LiveScript
ASSUME LiveApart == Script = LiveScript => SignalsApart

(* Two waits that list the same manual-reset events in opposite orders.    *)
CrossScript == [w1 |-> << {AnyOf(<<"m", "n">>, "infinite")} >>,
                w2 |-> << {AnyOf(<<"n", "m">>, "infinite")} >>,
                s1 |-> << {Set("m")} >>, s2 |-> << {Set("n")} >>]
CrossThreads == DOMAIN CrossScript

=============================================================================
