------------------------------ MODULE MCTimer ------------------------------
(***************************************************************************)
(* Instances of Timer for TLC.                                             *)
(*                                                                         *)
(* Core: a periodic slot s that may throw, a periodic observer t, and a    *)
(* single-shot observer n that t's Update() attaches while the dispatcher  *)
(* may be anywhere.                                                        *)
(* Future: a watched future f to be fulfilled by the callback of the slot  *)
(* s, and one, e, fulfilled from outside and given no function.            *)
(* Single: one periodic callback and nobody who stops the timer.           *)
(***************************************************************************)
EXTENDS TimerInv

CONSTANTS s, t, n, f, e, client, main

CoreKind     == s :> "slot" @@ t :> "timer" @@ n :> "timer"
CoreMode     == s :> "continuous" @@ t :> "continuous" @@ n :> "singleshot"
CoreInterval == s :> 1 @@ t :> 2 @@ n :> 1
CoreCaller   == s :> main @@ t :> main @@ n :> t
CoreResolver == s :> main @@ t :> main @@ n :> main

SingleKind     == s :> "slot"
SingleMode     == s :> "continuous"
SingleInterval == s :> 1
SingleCaller   == s :> main
SingleResolver == s :> main

FutureKind     == s :> "slot" @@ f :> "future" @@ e :> "future"
FutureMode     == s :> "singleshot" @@ f :> "continuous" @@ e :> "continuous"
FutureInterval == s :> 1 @@ f :> 0 @@ e :> 0
FutureCaller   == s :> main @@ f :> client @@ e :> main
FutureResolver == s :> main @@ f :> s @@ e :> client

=============================================================================
