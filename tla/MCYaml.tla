------------------------------- MODULE MCYaml -------------------------------
(* Short documents for TLC: the keys the logger asks for and some values.  *)
EXTENDS Yaml

LoggerKeys == <<{"logging"}, {"client"}, {"Sink", "Pool"}>>
NameKeys == <<{"logging"}, {"name"}>>

\* A number, one that does not fit into IntWidth bits, and the text that
\* getValue returns for nothing.
SomeTexts == [depth \in 0..3 |-> IF depth < 3 THEN {"x"} ELSE {"7", "20", NOT_FOUND}]
OneText == [depth \in 0..2 |-> {"x"}]
SomeNumbers == "7" :> 7 @@ "20" :> 20

=============================================================================
