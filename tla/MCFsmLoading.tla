---------------------------- MODULE MCFsmLoading ----------------------------
(* Definitions that depend on one another, in cycles too, on a library, on *)
(* a loader and on nothing that exists, with a name that is taken; entries *)
(* between states that may be loaded or not, of every type and length.     *)
EXTENDS TransitionMapInit

CONSTANTS lib, gen, a, b, c, ok

MCDefs ==
  {[name |-> a, base |-> lib], [name |-> a, base |-> b],
   [name |-> b, base |-> a],   [name |-> b, base |-> c],
   [name |-> c, base |-> gen], [name |-> c, base |-> a],
   [name |-> c, base |-> NoBase], [name |-> lib, base |-> a]}

MCEntries ==
  [size : {4}, from : {a}, by : {ok, DEFAULT}, to : {a, b}, type : {"Auto"}]
  \cup [size : {4}, from : {b}, by : {ok}, to : {a}, type : {"Strict", "Unknown"}]
  \cup [size : {3}, from : {a}, by : {ok}, to : {b}, type : {"Auto"}]
  \cup [size : {2}, from : {a}, by : {ok}, to : {a}, type : {"Auto"}]
=============================================================================
