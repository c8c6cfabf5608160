------------------------------- MODULE MCCJson --------------------------------
(***************************************************************************)
(* A few items, names that differ in case only, and texts that nest, end   *)
(* early and carry white space where the parser steps back.                *)
(***************************************************************************)
EXTENDS CJsonPrint

MCNodes == 1 .. 5
MCKeys == {"a", "A"}
MCFold == [a |-> "a", A |-> "a", string |-> "string"]
MCTexts ==
  { << "[", "ws", "null", "ws", ",", "[", "number", "]", ",", "true", "]", "ws", "nul" >>,
    << "{", "a", "ws", ":", "ws", "string", ",", "A", ":", "{", "}", "ws", "}" >>,
    << "ws", "[", "{", "a", ":", "string", "}", ",", "]", "nul" >>,
    << "{", "a", ":", "string", "," >>,
    << "{", "a", ":", "[", "string", ",", "badstring", "]", "}", "nul" >>,
    << "[", "[", "[", "]", "]", "]" >>,
    << "[", "ws" >>, << "[" >>, << "{", "ws", "nul" >>, << "ws", "nul" >>,
    << "{", "ws", "a", "}" >>, << "[", "false", "}" >>, << "number", "ws", "number", "nul" >>,
    << "[", "number", "ws" >>, << "[", "ws", "]", "ws" >>, << "string" >> }

MCWidth ==
  [null |-> 4, false |-> 5, true |-> 4, number |-> 2, string |-> 3, a |-> 3, A |-> 3, noname |-> 2]

=============================================================================
