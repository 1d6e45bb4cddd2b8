------------------------------ MODULE MCApiSeq ------------------------------
(***************************************************************************)
(* A schema for model checking ApiSeq: a class "Img" with a constructor    *)
(* `load' that takes bytes, `encode', a method that takes an Img and       *)
(* anything, `wrap', which takes a class that no endpoint produces, and    *)
(* `buffer', an endpoint added for built-in values.                        *)
(***************************************************************************)
EXTENDS ApiSeq

MCApis    == {"load", "encode", "wrap", "buffer"}
MCBuiltin == {"buffer"}
MCFree    == {"load", "buffer"}
MCTypes   == {"bytes", "img", "any", "lost"}
MCSig     == [a \in MCApis |->
                CASE a = "load"   -> <<"bytes">>
                  [] a = "encode" -> <<"img", "any">>
                  [] a = "wrap"   -> <<"lost">>
                  [] a = "buffer" -> <<>>]
MCMakes   == [t \in MCTypes |->
                CASE t = "bytes" -> {"encode", "buffer"}
                  [] t = "img"   -> {"load"}
                  [] t = "any"   -> MCApis
                  [] t = "lost"  -> {}]
MCConstAble == {"bytes", "any"}
MCSamples == [t \in MCTypes |->
                CASE t = "bytes" -> {"string"}
                  [] t = "any"   -> {"string", "object"}
                  [] OTHER       -> {"object"}]

=============================================================================
