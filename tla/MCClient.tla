------------------------------ MODULE MCClient ------------------------------
(***************************************************************************)
(* Client for a server of eight properties, with calls of each kind.       *)
(***************************************************************************)
EXTENDS Client, TLC

-----------------------------------------------------------------------------
(* CProperty *)

P(kind, level, name, absolute) ==
  [kind |-> kind, access |-> level, name |-> name, absolute |-> absolute]

NoLimits == <<0, 0>>

MCProps ==
  0 :> P("symbols", "READ", 7, NoLimits)
  @@ 1 :> P("value", "READ", 6, NoLimits)
  @@ 2 :> P("key", "READ_WRITE_PROTECT", 5, NoLimits)
  @@ 3 :> P("range", "WRITE_PROTECT", 4, <<1, 2>>)
  @@ 4 :> P("value", "READ_PROTECT", 3, NoLimits)
  @@ 5 :> P("value", "READ_WRITE", 2, NoLimits)
  @@ 6 :> P("memory", "READ_WRITE", 1, NoLimits)
  @@ 7 :> P("memory", "WRITE_PROTECT", 0, NoLimits)

MCInitValues ==
  0 :> <<>> @@ 1 :> <<0>> @@ 2 :> <<0>> @@ 3 :> <<1, 2>> @@ 4 :> <<3>> @@ 5 :> <<0>>
  @@ 6 :> <<0, 1, 2, 3, 4, 5, 6, 7>> @@ 7 :> <<0, 0, 0, 0, 0>>

\* The client's name 8 is not one of the server's.
MCIdOf == [name \in 0 .. 7 |-> 7 - name]

MCLogFrame == [cmd |-> "LOG", err |-> "S_OK", data |-> <<0>>, seal |-> NoSeal]

C(kind, name, level, cells) == [kind |-> kind, name |-> name, access |-> level, size |-> cells]

Value == C("value", 2, "READ_WRITE", 1)
Nonce == C("value", 6, "READ", 1)
Key == C("value", 5, "READ_WRITE_PROTECT", 1)
TheRange == C("range", 4, "WRITE_PROTECT", 2)
Protected == C("value", 3, "READ_PROTECT", 1)
Unbound == C("value", 8, "READ_WRITE", 1)
Long == C("value", 2, "READ_WRITE", 5)

MCCProps == {Value, Nonce, Key, TheRange, Protected, Unbound, Long}

O(do, prop, arg) == [do |-> do, prop |-> prop, arg |-> arg]

\* Gets and sets of every access level but gets of a protected property, and one
\* call for each error that needs no server.
PlainGets ==
  {O("get", Value, <<>>), O("get", Nonce, <<>>), O("set", Value, <<1>>),
   O("get", TheRange, <<0>>), O("get", TheRange, <<1>>), O("set", TheRange, <<1, 1>>),
   O("set", Key, <<1>>), O("set", Nonce, <<1>>), O("get", Unbound, <<>>),
   O("set", Long, <<1, 1, 1, 1, 1>>)}

ProtectedGets == {O("get", Nonce, <<>>), O("get", Protected, <<>>), O("set", Value, <<1>>)}

Sets == {O("set", Value, <<1>>), O("set", Value, <<0>>)}

MCSecret == [key |-> 0, nonce |-> 0]

PropertyRequests ==
  [cmd : {"GET_PROPERTY", "SET_PROPERTY"},
   data : {Payload(o) : o \in {o \in Operations : LocalError(o) = "S_OK"}},
   seal : Seal]

-----------------------------------------------------------------------------
(* CMemory *)

MO(do, name, level, offset, cells) ==
  [do |-> do, name |-> name, access |-> level, offset |-> offset, size |-> cells,
   data |-> SubSeq(<<7, 6, 5, 4, 3, 2, 1, 0, 8, 7>>, 1, cells)]

\* Whole blocks with and without a remainder, one that begins at the last cell, one
\* longer than Size can count, an empty one behind the end, a protected one, an
\* unknown name.
AllTransfers ==
  {MO("set", 1, "READ_WRITE", 2, 5), MO("set", 1, "READ_WRITE", 8, 3),
   MO("set", 1, "READ_WRITE", 4, 10), MO("set", 0, "WRITE_PROTECT", 8, 0),
   MO("set", 0, "WRITE_PROTECT", 1, 4), MO("set", 1, "READ", 0, 1),
   MO("get", 1, "READ_WRITE", 1, 7), MO("get", 1, "READ_WRITE", 7, 3),
   MO("get", 1, "READ_WRITE", 0, 10), MO("get", 8, "READ_WRITE", 0, 1)}

FewTransfers ==
  {MO("set", 1, "READ_WRITE", 2, 5), MO("get", 1, "READ_WRITE", 7, 3),
   MO("get", 8, "READ_WRITE", 0, 1)}

\* The payload of a block of n cells that begins m cells into the range.
BlockPayload(o, m, n) ==
  <<IdOf[o.name], (o.offset + m) % (MaxCell + 1), n>>
    \o (IF o.do = "set" THEN SubSeq(o.data, m + 1, m + n) ELSE <<>>)

Payloads(o) ==
  {BlockPayload(o, p[1], p[2]) :
     p \in {p \in Cells \X (0 .. BlockMax) : p[1] + p[2] <= o.size}}

MemRequests ==
  [cmd : {"GET_PROPERTY", "SET_PROPERTY"},
   data : UNION {Payloads(o) : o \in {x \in MemOperations : x.name \in DOMAIN IdOf}},
   seal : {NoSeal, InitSecret}]

-----------------------------------------------------------------------------
(* CPropertyHolder *)

TwoProtected == {2, 3, 5, 6}
Unknown == {2, 8}

HolderRequests ==
  {[cmd |-> "GET_SIZE", data |-> <<0>>, seal |-> NoSeal]} \cup
  [cmd : {"GET_PROPERTY"}, data : {<<0, id>> : id \in Ids}, seal : {NoSeal, InitSecret}]

MCRequests == PropertyRequests \cup MemRequests \cup HolderRequests

-----------------------------------------------------------------------------
(* AddressChange *)

StartAddress == "s1" :> 1 @@ "s2" :> 2
=============================================================================
