----------------------------- MODULE HeaderList -----------------------------
(***************************************************************************)
(* headerList (message.go) and its twin for records of the client library  *)
(* (adapter/sarama/message.go): a header list is a sequence of pairs of a  *)
(* name and a value, in which a record may repeat a name.                  *)
(***************************************************************************)
EXTENDS Integers, Sequences

NameOf(h)  == h[1]
ValueOf(h) == h[2]

IsList(list) == list \in Seq({list[i] : i \in DOMAIN list})

Has(list, name) == \E i \in DOMAIN list : NameOf(list[i]) = name

FirstOf(list, name) ==
  CHOOSE i \in DOMAIN list : /\ NameOf(list[i]) = name
                             /\ \A j \in DOMAIN list : NameOf(list[j]) = name => i <= j

\* The first value of a name that the list has.
Get(list, name) == ValueOf(list[FirstOf(list, name)])

\* GetHeaderValue with the zero value, or another, for a name that is absent.
GetOr(list, name, other) == IF Has(list, name) THEN Get(list, name) ELSE other

LastOf(list, name) ==
  CHOOSE i \in DOMAIN list : /\ NameOf(list[i]) = name
                             /\ \A j \in DOMAIN list : NameOf(list[j]) = name => j <= i

\* All: the last value of every name.
All(list) == [name \in {NameOf(list[i]) : i \in DOMAIN list} |->
                ValueOf(list[LastOf(list, name)])]

\* Mutants: an existing header is not looked for; it is left as it is.
SetAppends(list, name, value) == Append(list, <<name, value>>)

SetOnce(list, name, value) ==
  IF Has(list, name) THEN list ELSE Append(list, <<name, value>>)

Set(list, name, value) ==
  IF Has(list, name) THEN [list EXCEPT ![FirstOf(list, name)] = <<name, value>>]
                     ELSE Append(list, <<name, value>>)

\* What a header of another list makes of a list into which it is copied,
\* when some names are skipped.
Copied(list, h, skipped) ==
  IF NameOf(h) \in skipped THEN list ELSE Set(list, NameOf(h), ValueOf(h))

\* The list after each turn of a loop over the headers of another one.
Loop(list, more, skipped) ==
  LET upto[n \in 0..Len(more)] ==
        IF n = 0 THEN list ELSE Copied(upto[n - 1], more[n], skipped)
  IN  upto

SetAll(list, more) == Loop(list, more, {})[Len(more)]

\* The headers of NewFromMessage: one per name, where the name came first,
\* with the value that came last.
FromMessage(list) == SetAll(<< >>, list)

\* The filter with which headers are copied to the next record.
Without(list, names) == Loop(<< >>, list, names)[Len(list)]
=============================================================================
