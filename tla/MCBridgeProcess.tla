--------------------------- MODULE MCBridgeProcess ---------------------------
(* BridgeProcess from every configuration that is one field away from a     *)
(* sound one, for each kind of radio and of authentication, or has any two  *)
(* numbers for the delays or the mesh channels.                             *)
EXTENDS BridgeProcess

MCRaw ==
  UNION {{[Sound(type, mode) EXCEPT ![field] = value] : value \in Values(field)} :
           type \in TypeNames, mode \in ModeNames, field \in Field}
  \cup UNION {{[Sound("tcp", "none") EXCEPT ![pair[1]] = v, ![pair[2]] = w] :
                 v, w \in Numbers \cup {"absent", "nan", "inf"}} :
               pair \in {<<"initialDelay", "maxDelay">>, <<"index1", "index2">>}}

==============================================================================
