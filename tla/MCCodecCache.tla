---------------------------- MODULE MCCodecCache ----------------------------
(* CodecCache on a recursive struct, a list of them and maps.              *)
EXTENDS CodecCache

MCTypes == {"string", "Node", "*Node", "map[string]Node", "map[any]string"}
MCKind ==
  [t \in MCTypes |-> CASE t = "string" -> "native" [] t = "Node" -> "struct" [] t = "*Node" -> "ptr"
                       [] t = "map[string]Node" -> "map" [] t = "map[any]string" -> "dynmap"]
MCElems ==
  [t \in MCTypes |-> CASE t = "string" -> <<>> [] t = "Node" -> <<"string", "*Node">> [] t = "*Node" -> <<"Node">>
                       [] t = "map[string]Node" -> <<"Node">> [] t = "map[any]string" -> <<"string">>]
MCPtrShaped == {"*Node", "map[string]Node", "map[any]string"}

MCRequests == {Key("dec", "Node"), Key("enc", "map[string]Node"), Key("enc", "map[any]string")}
MCCreates == [e \in {"naming"} |-> {Key("enc", "Node")}]

\* a map whose keys need an encoder that its elements do not
IntMapTypes == {"string", "int", "map[any]int"}
IntMapKind == [t \in IntMapTypes |-> IF t = "map[any]int" THEN "dynmap" ELSE "native"]
IntMapElems == [t \in IntMapTypes |-> IF t = "map[any]int" THEN <<"int">> ELSE <<>>]
IntMapPtrShaped == {"map[any]int"}
IntMapRequests == {Key("enc", "map[any]int")}
IntMapCreates == [e \in {"naming"} |-> {}]
=============================================================================
