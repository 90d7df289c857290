------------------------- MODULE ConverterArgParser -------------------------
(***************************************************************************)
(* ConverterArgParser (libmodmqttsrv/conv_name_parser.cpp): the values     *)
(* that the text between the parentheses of a converter gives to its       *)
(* arguments.  A text is a sequence of characters, where a run of ordinary *)
(* ones (a name, a word) counts as one.  Above SCAN the stack of the code  *)
(* holds at most one state, so here it is the state on top.                *)
(***************************************************************************)
EXTENDS Naturals, SequencesExt

\* before the first character; defaults are the values of the arguments
ArgParser(defaults) ==
    [state |-> "SCAN", name |-> <<>>, value |-> <<>>, delimiter |-> "", useArgOrder |-> TRUE,
     position |-> 1, processed |-> {}, values |-> defaults, failed |-> FALSE]

ArgError(p) == [p EXCEPT !.failed = TRUE]

SetArgValue(names, p) ==
    LET positional == p.name = <<>>
        name == IF positional THEN names[p.position] ELSE p.name
    IN IF \/ positional /\ (~p.useArgOrder \/ p.position > Len(names))
          \/ name \in p.processed
          \/ name \notin Range(names)
       THEN ArgError(p)
       ELSE [p EXCEPT !.useArgOrder = positional,
                      !.position = IF positional THEN @ + 1 ELSE @,
                      !.values[name] = p.value,
                      !.processed = @ \cup {name},
                      !.name = <<>>, !.value = <<>>]

ArgScan(names, p, c) ==
    CASE c = "\\" -> [p EXCEPT !.state = "ESCAPE"]
      [] c = "=" -> IF p.value = <<>> \/ p.name # <<>> THEN ArgError(p)
                    ELSE [p EXCEPT !.name = p.value, !.value = <<>>]
      [] c = "," -> IF p.value = <<>> THEN ArgError(p) ELSE SetArgValue(names, p)
      [] c \in {"\"", "'"} -> [p EXCEPT !.state = "ARGVALUE", !.delimiter = c]
      [] c = " " -> p
      [] OTHER -> [p EXCEPT !.value = Append(@, c)]

ArgCharacter_AnyQuote(names, p, c) ==
    CASE p.state = "SCAN" -> ArgScan(names, p, c)
      [] p.state = "ARGVALUE" -> IF c \in {"\"", "'"} THEN [p EXCEPT !.state = "SCAN", !.delimiter = ""]
                                 ELSE [p EXCEPT !.value = Append(@, c)]
      [] p.state = "ESCAPE" -> [p EXCEPT !.state = "SCAN", !.value = Append(@, c)]

\* in quotes everything up to the delimiter is part of the value
ArgCharacter(names, p, c) ==
    CASE p.state = "SCAN" -> ArgScan(names, p, c)
      [] p.state = "ARGVALUE" -> IF c = p.delimiter THEN [p EXCEPT !.state = "SCAN", !.delimiter = ""]
                                 ELSE [p EXCEPT !.value = Append(@, c)]
      [] p.state = "ESCAPE" -> [p EXCEPT !.state = "SCAN", !.value = Append(@, c)]

\* after the last character; an argument whose value is empty keeps its default
ArgsEnd(names, p) ==
    IF p.state # "SCAN" THEN ArgError(p) ELSE IF p.value = <<>> THEN p ELSE SetArgValue(names, p)
=============================================================================
