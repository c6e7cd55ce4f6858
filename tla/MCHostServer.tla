---------------------------- MODULE MCHostServer ----------------------------
EXTENDS HostServer, TLC

CONSTANT RangeCells   \* the numbers clients write to the range

P(kind, access, name, absolute) ==
  [kind |-> kind, access |-> access, name |-> name, absolute |-> absolute]

\* One property of each kind, and each access level once.
MCProps ==
  0 :> P("symbols", "READ", 3, <<0, 0>>)
  @@ 1 :> P("value", "READ", 4, <<0, 0>>)
  @@ 2 :> P("key", "READ_WRITE_PROTECT", 5, <<0, 0>>)
  @@ 3 :> P("value", "READ_PROTECT", 6, <<0, 0>>)
  @@ 4 :> P("memory", "READ_WRITE", 2, <<0, 0>>)
  @@ 5 :> P("range", "WRITE_PROTECT", 1, <<1, 2>>)

MCInitValues ==
  0 :> <<>> @@ 1 :> <<0>> @@ 2 :> <<0>> @@ 3 :> <<6>> @@ 4 :> <<0, 0, 0, 0, 0, 0>> @@ 5 :> <<1, 2>>

\* What follows an id: too little, too much, and what each kind of property takes.
\* The memory property is longer than a buffer.
Places == {<<>>, <<0>>, <<1>>, <<6>>} \cup {<<offset, size>> : offset \in {0, 5, 6}, size \in {0, 1, 2, 6}}
Writes ==
  {<<0>>, <<1>>, <<0, 1, 1>>, <<5, 1, 1>>, <<5, 1, 0>>, <<6, 1, 1>>, <<5, 2, 1, 1>>,
   <<4, 2, 1, 1>>, <<0, 2, 1>>, <<6, 0>>}
  \cup {<<0, low, high>> : low \in RangeCells, high \in RangeCells}

Data(cmd) ==
  CASE cmd = "GET_PROPERTY" -> {<<id>> \o s : id \in {0, 4, 5}, s \in Places}
                               \cup {<<id>> : id \in 0 .. 6}
    [] cmd = "SET_PROPERTY" -> {<<id>> \o s : id \in {4, 5}, s \in Writes}
                               \cup {<<id, 1>> : id \in 0 .. 3} \cup {<<2, 0>>, <<2>>}
    [] cmd \in {"GET_SIZE", "GET_ACCESS"} -> {<<id>> : id \in {0, 2, 3, 4}}
    [] OTHER -> {<<1>>}

MCRequests ==
  {q \in [cmd : Command, data : UNION {Data(cmd) \cup {<<>>} : cmd \in Command},
           seal : {NoSeal} \cup [key : 0 .. 1, nonce : 0 .. 1]] :
     q.data \in Data(q.cmd) \cup {<<>>}}
=============================================================================
