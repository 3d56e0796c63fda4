---------------------------- MODULE Pplmec_proofs ----------------------------
(***************************************************************************)
(* The safety of a Client's request, and of the function Pplme that makes  *)
(* one, proved for messages of any length, buffers of any size, and        *)
(* servers that may find and send anybody.                                 *)
(*                                                                         *)
(* ClientInv says where the words of a request and of its response are:    *)
(* read, on their way, or not yet written.  PplmeInv says which response   *)
(* they are of, and why there is none when there is none.  Before them     *)
(* come what is known of parts of a message, and of Convert.               *)
(***************************************************************************)
EXTENDS Pplmec, SequenceTheorems, TLAPS

-----------------------------------------------------------------------------
(* Parts of a message.                                                     *)

(* The n words of m from number k on.                                      *)
Part(m, k, n) == [i \in 1..n |-> <<m, k + i - 1>>]

(* What q and then r hold is the rest of m, from word g on.                *)
Rest(q, r, m, g) ==
  \E w, o \in 0..(m[3] + 1) :
    /\ q = Part(m, g, w)
    /\ r = Part(m, g + w, o)
    /\ g + w + o = m[3] + 1

LEMMA PartIsSeq ==
  ASSUME NEW m, NEW k \in Nat, NEW n \in Nat
  PROVE  /\ Len(Part(m, k, n)) = n
         /\ DOMAIN Part(m, k, n) = 1..n
         /\ Part(m, k, n) \in Seq({m} \X Nat)
         /\ Part(m, k, n) = <<>> <=> n = 0
<1>1. \A i \in 1..n : <<m, k + i - 1>> \in {m} \X Nat
  OBVIOUS
<1>2. Part(m, k, n) \in Seq({m} \X Nat)
  BY <1>1, IsASeq DEF Part
<1>3. /\ Len(Part(m, k, n)) = n
      /\ DOMAIN Part(m, k, n) = 1..n
  BY <1>2, LenProperties DEF Part
<1> QED BY <1>2, <1>3, EmptySeq DEF Part

(* The first word of a part is the message's word k; the others are a part. *)
LEMMA PartHeadTail ==
  ASSUME NEW m, NEW k \in Nat, NEW n \in Nat \ {0}
  PROVE  /\ Head(Part(m, k, n)) = <<m, k>>
         /\ Tail(Part(m, k, n)) = Part(m, k + 1, n - 1)
<1> DEFINE p == Part(m, k, n)
           t == Part(m, k + 1, n - 1)
<1>1. /\ p \in Seq({m} \X Nat) /\ Len(p) = n
      /\ \A i \in 1..n : p[i] = <<m, k + i - 1>>
  <2>1. p \in Seq({m} \X Nat) BY PartIsSeq
  <2>2. Len(p) = n BY PartIsSeq
  <2>3. \A i \in 1..n : p[i] = <<m, k + i - 1>> BY DEF Part
  <2> QED BY <2>1, <2>2, <2>3
<1>2. p # <<>>
  BY PartIsSeq
<1>3. /\ t \in Seq({m} \X Nat) /\ Len(t) = n - 1
      /\ \A i \in 1..(n - 1) : t[i] = <<m, (k + 1) + i - 1>>
  <2>0. k + 1 \in Nat /\ n - 1 \in Nat OBVIOUS
  <2>1. t \in Seq({m} \X Nat) BY <2>0, PartIsSeq
  <2>2. Len(t) = n - 1 BY <2>0, PartIsSeq, Zenon
  <2>3. \A i \in 1..(n - 1) : t[i] = <<m, (k + 1) + i - 1>> BY DEF Part
  <2> QED BY <2>1, <2>2, <2>3
<1> HIDE DEF p, t
<1>4. /\ Head(p) = p[1]
      /\ Tail(p) \in Seq({m} \X Nat)
      /\ Len(Tail(p)) = n - 1
      /\ \A i \in 1..(n - 1) : Tail(p)[i] = p[i + 1]
  BY <1>1, <1>2, HeadTailProperties
<1>5. ASSUME NEW i \in 1..(n - 1) PROVE Tail(p)[i] = t[i]
  <2>1. i + 1 \in 1..n /\ k + (i + 1) - 1 = (k + 1) + i - 1
    OBVIOUS
  <2> QED BY <1>1, <1>3, <1>4, <2>1
<1>6. Tail(p) = t
  BY <1>3, <1>4, <1>5, SeqEqual
<1>7. Head(p) = <<m, k>>
  BY <1>1, <1>4
<1> QED BY <1>6, <1>7 DEF p, t

(* A part grows by the message's next word.                                *)
LEMMA PartAppend ==
  ASSUME NEW m, NEW k \in Nat, NEW n \in Nat
  PROVE  Append(Part(m, k, n), <<m, k + n>>) = Part(m, k, n + 1)
<1> DEFINE p == Part(m, k, n)
           t == Part(m, k, n + 1)
           e == <<m, k + n>>
<1>1. /\ p \in Seq({m} \X Nat) /\ Len(p) = n
      /\ \A i \in 1..n : p[i] = <<m, k + i - 1>>
  <2>1. p \in Seq({m} \X Nat) BY PartIsSeq
  <2>2. Len(p) = n BY PartIsSeq
  <2>3. \A i \in 1..n : p[i] = <<m, k + i - 1>> BY DEF Part
  <2> QED BY <2>1, <2>2, <2>3
<1>2. /\ t \in Seq({m} \X Nat) /\ Len(t) = n + 1
      /\ \A i \in 1..(n + 1) : t[i] = <<m, k + i - 1>>
  <2>0. n + 1 \in Nat OBVIOUS
  <2>1. t \in Seq({m} \X Nat) BY <2>0, PartIsSeq
  <2>2. Len(t) = n + 1 BY <2>0, PartIsSeq, Zenon
  <2>3. \A i \in 1..(n + 1) : t[i] = <<m, k + i - 1>> BY DEF Part
  <2> QED BY <2>1, <2>2, <2>3
<1>3. e \in {m} \X Nat
  OBVIOUS
<1> HIDE DEF p, t, e
<1>4. /\ Append(p, e) \in Seq({m} \X Nat)
      /\ Len(Append(p, e)) = n + 1
      /\ \A i \in 1..n : Append(p, e)[i] = p[i]
      /\ Append(p, e)[n + 1] = e
  BY <1>1, <1>3, AppendProperties
<1>5. ASSUME NEW i \in 1..(n + 1) PROVE Append(p, e)[i] = t[i]
  <2>1. t[i] = <<m, k + i - 1>>
    BY <1>2
  <2>2. CASE i = n + 1
    <3>1. k + i - 1 = k + n
      BY <2>2
    <3>2. t[i] = e
      BY <2>1, <3>1 DEF e
    <3> QED BY <2>2, <3>2, <1>4
  <2>3. CASE i \in 1..n
    <3>1. p[i] = <<m, k + i - 1>>
      BY <2>3, <1>1
    <3>2. Append(p, e)[i] = p[i]
      BY <2>3, <1>4
    <3> QED BY <2>1, <3>1, <3>2
  <2>4. i = n + 1 \/ i \in 1..n
    OBVIOUS
  <2> QED BY <2>2, <2>3, <2>4
<1>6. Append(p, e) = t
  BY <1>2, <1>4, <1>5, SeqEqual
<1> QED BY <1>6 DEF p, t, e

(* A word is written: the rest is still the rest.                          *)
LEMMA RestWrite ==
  ASSUME NEW m, m[3] \in Nat, NEW g \in Nat, NEW q, NEW r,
         Rest(q, r, m, g), r # <<>>
  PROVE  Rest(Append(q, Head(r)), Tail(r), m, g)
<1>1. PICK w \in 0..(m[3] + 1), o \in 0..(m[3] + 1) :
        /\ q = Part(m, g, w)
        /\ r = Part(m, g + w, o)
        /\ g + w + o = m[3] + 1
  BY DEF Rest
<1>2. w \in Nat /\ o \in Nat /\ g + w \in Nat
  OBVIOUS
<1>3. o # 0
  BY <1>1, <1>2, PartIsSeq
<1>4. Head(r) = <<m, g + w>> /\ Tail(r) = Part(m, g + w + 1, o - 1)
  BY <1>1, <1>2, <1>3, PartHeadTail
<1>5. Append(q, Head(r)) = Part(m, g, w + 1)
  BY <1>1, <1>2, <1>4, PartAppend
<1>6. /\ w + 1 \in 0..(m[3] + 1) /\ o - 1 \in 0..(m[3] + 1)
      /\ g + (w + 1) + (o - 1) = m[3] + 1
      /\ g + w + 1 = g + (w + 1)
  BY <1>1, <1>2, <1>3
<1> QED BY <1>4, <1>5, <1>6 DEF Rest

(* A word is read: it is word g, and the rest begins one further on.       *)
LEMMA RestRead ==
  ASSUME NEW m, m[3] \in Nat, NEW g \in Nat, NEW q, NEW r,
         Rest(q, r, m, g), q # <<>>
  PROVE  /\ Head(q) = <<m, g>>
         /\ g <= m[3]
         /\ Rest(Tail(q), r, m, g + 1)
<1>1. PICK w \in 0..(m[3] + 1), o \in 0..(m[3] + 1) :
        /\ q = Part(m, g, w)
        /\ r = Part(m, g + w, o)
        /\ g + w + o = m[3] + 1
  BY DEF Rest
<1>2. w \in Nat /\ o \in Nat
  OBVIOUS
<1>3. w # 0
  BY <1>1, <1>2, PartIsSeq
<1>4. Head(q) = <<m, g>> /\ Tail(q) = Part(m, g + 1, w - 1)
  BY <1>1, <1>2, <1>3, PartHeadTail
<1>5. /\ w - 1 \in 0..(m[3] + 1)
      /\ (g + 1) + (w - 1) + o = m[3] + 1
      /\ g + w = (g + 1) + (w - 1)
      /\ g <= m[3]
  BY <1>1, <1>2, <1>3
<1>6. r = Part(m, (g + 1) + (w - 1), o)
  BY <1>1, <1>5
<1>7. Rest(Tail(q), r, m, g + 1)
  BY <1>4, <1>5, <1>6 DEF Rest
<1> QED BY <1>4, <1>5, <1>7

(* Nothing is left exactly when all of it has been read.                   *)
LEMMA RestEnds ==
  ASSUME NEW m, m[3] \in Nat, NEW g \in Nat, NEW q, NEW r, Rest(q, r, m, g)
  PROVE  g = m[3] + 1 <=> q = <<>> /\ r = <<>>
<1>1. PICK w \in 0..(m[3] + 1), o \in 0..(m[3] + 1) :
        /\ q = Part(m, g, w)
        /\ r = Part(m, g + w, o)
        /\ g + w + o = m[3] + 1
  BY DEF Rest
<1>2. w \in Nat /\ o \in Nat /\ g + w \in Nat
  OBVIOUS
<1>3. q = <<>> <=> w = 0
  BY <1>1, <1>2, PartIsSeq
<1>4. r = <<>> <=> o = 0
  BY <1>1, <1>2, PartIsSeq
<1> QED BY <1>1, <1>2, <1>3, <1>4

(* What SendMessage has to write is all of the message.                    *)
LEMMA RestBegins ==
  ASSUME NEW m, m[3] \in Nat
  PROVE  /\ Rest(<<>>, Words(m), m, 0)
         /\ Words(m) = Part(m, 0, m[3] + 1)
         /\ Words(m) # <<>>
<1>1. Words(m) = Part(m, 0, m[3] + 1)
  BY DEF Words, Part
<1>2. <<>> = Part(m, 0, 0)
  BY PartIsSeq
<1>3. m[3] + 1 \in Nat /\ m[3] + 1 # 0
  OBVIOUS
<1>4. Words(m) # <<>>
  <2>1. Part(m, 0, m[3] + 1) = <<>> <=> m[3] + 1 = 0
    BY <1>3, PartIsSeq
  <2> QED BY <1>1, <1>3, <2>1
<1>5. 0 + 0 = 0 /\ 0 + 0 + (m[3] + 1) = m[3] + 1 /\ 0 \in 0..(m[3] + 1)
       /\ m[3] + 1 \in 0..(m[3] + 1)
  OBVIOUS
<1>6. Words(m) = Part(m, 0 + 0, m[3] + 1)
  BY <1>1, <1>5
<1>7. Rest(<<>>, Words(m), m, 0)
  BY <1>2, <1>5, <1>6 DEF Rest
<1> QED BY <1>1, <1>4, <1>7

-----------------------------------------------------------------------------
(* The conversions undo each other, for every person and every message,    *)
(* whatever the octet order of the host.                                   *)

(* htonl and ntohl are the same swap, and undo each other.                 *)
LEMMA SwapTwice ==
  ASSUME NEW a, NEW b, NEW c, NEW d
  PROVE  Swap(Swap(<<a, b, c, d>>)) = <<a, b, c, d>>
BY DEF Swap

(* A date is packed in four octets and comes out of them.                  *)
LEMMA DateRoundTrip ==
  ASSUME NEW d \in Dates
  PROVE  ToDate(FromDate(d)) = {d}
<1> DEFINE y == d.year
           word == <<y \div 256, y % 256, d.month, d.day>>
<1>1. /\ d \in [year : 1400..LastYear, month : 1..12, day : 1..31]
      /\ y \in Nat
  BY ConvertAssumption DEF Dates
<1>2. ((y \div 256) * 256) + (y % 256) = y
  BY <1>1
<1>3. DateOf(word) = [year |-> y, month |-> d.month, day |-> d.day]
  <2>1. word[1] = y \div 256 /\ word[2] = y % 256
    OBVIOUS
  <2>2. word[3] = d.month /\ word[4] = d.day
    OBVIOUS
  <2>3. word[1] * 256 + word[2] = y
    BY <1>2, <2>1
  <2> HIDE DEF word, y
  <2> QED
    BY <2>2, <2>3 DEF DateOf
<1>4. DateOf(word) = d
  BY <1>1, <1>3
<1>5. FromDate(d) = [ymd |-> Swap(word)]
  BY DEF FromDate
<1>6. Has(FromDate(d), {"ymd"}) /\ FromDate(d).ymd = Swap(word)
  BY <1>5 DEF Has
<1>7. Swap(Swap(word)) = word
  BY SwapTwice
<1>8. ToDate(FromDate(d)) = {DateOf(word)} \cap Dates
  BY <1>6, <1>7 DEF ToDate
<1> QED
  BY <1>4, <1>8

(* What Convert makes of a person for the wire, Convert makes the same     *)
(* person of at the other end, and nobody else.                            *)
THEOREM PersonRoundTrip ==
  ASSUME NEW Names, NEW Degrees, NEW p \in People(Names, Degrees)
  PROVE  ToPerson(FromPerson(p)) = {p}
<1> DEFINE m == FromPerson(p)
<1>1. /\ p.id \in [1..16 -> Octet]
      /\ p.date_of_birth \in Dates
      /\ p.location_of_home \in [latitude : Degrees, longitude : Degrees]
      /\ p = [id |-> p.id, name |-> p.name, date_of_birth |-> p.date_of_birth,
              location_of_home |-> p.location_of_home]
  BY DEF People, UuidSize
<1>2. /\ Has(m, {"id", "name", "date_of_birth", "location_of_home"})
      /\ m.id = FromUuid(p.id)
      /\ m.name = p.name
      /\ m.date_of_birth = FromDate(p.date_of_birth)
      /\ m.location_of_home = FromGeoPosition(p.location_of_home)
  BY DEF FromPerson, Has
<1>3. ToUuid(m.id) = {p.id}
  <2>1. Len(p.id) = 16
    BY <1>1
  <2>2. /\ Has(FromUuid(p.id), {"octets"})
        /\ FromUuid(p.id).octets = p.id
    BY DEF FromUuid, Has
  <2> QED
    BY <1>2, <2>1, <2>2 DEF ToUuid, UuidSize
<1>4. ToDate(m.date_of_birth) = {p.date_of_birth}
  BY <1>1, <1>2, DateRoundTrip
<1>5. ToGeoPosition(m.location_of_home) = {p.location_of_home}
  <2> DEFINE home == p.location_of_home
             g == FromGeoPosition(home)
  <2>1. Has(g, {"latitude", "longitude"})
    BY DEF FromGeoPosition, Has
  <2>2. g.latitude = home.latitude /\ g.longitude = home.longitude
    BY DEF FromGeoPosition
  <2>3. home = [latitude |-> home.latitude, longitude |-> home.longitude]
    BY <1>1
  <2> QED
    BY <1>2, <2>1, <2>2, <2>3 DEF ToGeoPosition
<1>6. ToPerson(m) = {[id |-> p.id, name |-> p.name,
                      date_of_birth |-> p.date_of_birth,
                      location_of_home |-> p.location_of_home]}
  BY <1>2, <1>3, <1>4, <1>5 DEF ToPerson
<1> QED
  BY <1>1, <1>6

(* And a message that Convert takes for a person is what it makes of that  *)
(* person.                                                                 *)
THEOREM MessageRoundTrip ==
  ASSUME NEW m, IsPersonMessage(m), NEW p \in ToPerson(m)
  PROVE  m = FromPerson(p)
<1>1. Has(m, {"id", "name", "date_of_birth", "location_of_home"})
  BY DEF ToPerson
<1>2. PICK id \in ToUuid(m.id), dob \in ToDate(m.date_of_birth),
           home \in ToGeoPosition(m.location_of_home) :
        p = [id |-> id, name |-> m.name, date_of_birth |-> dob,
             location_of_home |-> home]
  BY <1>1 DEF ToPerson
<1>3. m.id = FromUuid(id)
  <2>1. Has(m.id, {"octets"}) /\ id = m.id.octets
    BY DEF ToUuid
  <2>2. IsMessage(m.id, {"octets"})
    BY <1>1 DEF IsPersonMessage, Has
  <2>3. DOMAIN m.id = {"octets"} /\ m.id = [f \in DOMAIN m.id |-> m.id[f]]
    BY <2>1, <2>2 DEF IsMessage, Has
  <2> QED BY <2>1, <2>3 DEF FromUuid
<1>4. m.date_of_birth = FromDate(dob)
  <2> DEFINE ymd == m.date_of_birth.ymd
             word == Swap(ymd)
  <2>1. Has(m.date_of_birth, {"ymd"}) /\ dob = DateOf(word)
    BY DEF ToDate
  <2>2. IsMessage(m.date_of_birth, {"ymd"}) /\ ymd \in [1..4 -> Octet]
    BY <1>1, <2>1 DEF IsPersonMessage, Has
  <2>3. /\ DOMAIN m.date_of_birth = {"ymd"}
        /\ m.date_of_birth = [f \in DOMAIN m.date_of_birth |-> m.date_of_birth[f]]
    BY <2>1, <2>2 DEF IsMessage, Has
  <2>4. m.date_of_birth = [ymd |-> ymd]
    BY <2>3
  <2>5. PICK a \in Octet, b \in Octet, c \in Octet, d \in Octet : ymd = <<a, b, c, d>>
    <3>1. ymd = <<ymd[1], ymd[2], ymd[3], ymd[4]>>
      BY <2>2
    <3>2. ymd[1] \in Octet /\ ymd[2] \in Octet /\ ymd[3] \in Octet /\ ymd[4] \in Octet
      BY <2>2
    <3> QED BY <3>1, <3>2
  <2>6. PICK w \in Octet, x \in Octet, y \in Octet, z \in Octet : word = <<w, x, y, z>>
    BY <2>5 DEF Swap
  <2>7. Swap(word) = ymd
    BY <2>5, SwapTwice
  <2>8. dob = [year |-> w * 256 + x, month |-> y, day |-> z]
    BY <2>1, <2>6 DEF DateOf
  <2>9. (w * 256 + x) \div 256 = w /\ (w * 256 + x) % 256 = x
    BY DEF Octet
  <2>10. dob.year = w * 256 + x /\ dob.month = y /\ dob.day = z
    BY <2>8
  <2>11. <<dob.year \div 256, dob.year % 256, dob.month, dob.day>> = word
    BY <2>6, <2>9, <2>10
  <2> QED BY <2>4, <2>7, <2>11 DEF FromDate
<1>5. m.location_of_home = FromGeoPosition(home)
  <2> DEFINE l == m.location_of_home
  <2>1. /\ Has(l, {"latitude", "longitude"})
        /\ home = [latitude |-> l.latitude, longitude |-> l.longitude]
    BY DEF ToGeoPosition
  <2>2. IsMessage(l, {"latitude", "longitude"})
    BY <1>1 DEF IsPersonMessage, Has
  <2>3. DOMAIN l = {"latitude", "longitude"} /\ l = [f \in DOMAIN l |-> l[f]]
    BY <2>1, <2>2 DEF IsMessage, Has
  <2>4. l = [latitude |-> l.latitude, longitude |-> l.longitude]
    BY <2>3
  <2>5. home.latitude = l.latitude /\ home.longitude = l.longitude
    BY <2>1
  <2> QED BY <2>4, <2>5 DEF FromGeoPosition
<1>6. /\ DOMAIN m = {"id", "name", "date_of_birth", "location_of_home"}
      /\ m = [f \in DOMAIN m |-> m[f]]
  BY <1>1 DEF IsPersonMessage, IsMessage, Has
<1>7. m = [id |-> m.id, name |-> m.name, date_of_birth |-> m.date_of_birth,
           location_of_home |-> m.location_of_home]
  BY <1>6
<1>8. /\ p.id = id /\ p.name = m.name /\ p.date_of_birth = dob
      /\ p.location_of_home = home
  BY <1>2
<1> QED BY <1>3, <1>4, <1>5, <1>7, <1>8 DEF FromPerson

-----------------------------------------------------------------------------
(* The inductive invariant of a Client and the thread that serves it.      *)

TypeOK ==
  /\ act \in [Sides -> {"none", "idle", "send", "header", "body", "failed",
                        "threw", "closed"}]
  /\ out \in [Sides -> Seq(Messages \X Nat)]
  /\ got \in [Sides -> Seq(Messages \X Nat)]
  /\ need \in [Sides -> Nat]
  /\ wire \in [Sides -> Seq(Messages \X Nat)]
  /\ lost \in BOOLEAN
  /\ requests \in 0..MaxRequests

(* Nothing is on its way to s, nor waits to be written to it.              *)
Silent(s) == wire[s] = <<>> /\ out[Peer(s)] = <<>>

(* What is on its way to s is the rest of m, from word g on.               *)
Coming(s, m, g) == Rest(wire[s], out[Peer(s)], m, g)

(* s is reading m, and has read its first words.                           *)
Reading(s, m) ==
  /\ need[s] = m[3] + 1
  /\ \E g \in 1..(m[3] + 1) : got[s] = Part(m, 0, g) /\ Coming(s, m, g)

Request(n) == <<"request", 1, n>>
Response(n) == <<"response", 1, n>>

BeforeConnect ==
  app = "new" => /\ act["client"] = "none" /\ act["server"] = "none"
                 /\ Silent("client") /\ Silent("server") /\ requests = 0

InRequest ==
  /\ act["client"] \in {"send", "header", "body"} => app = "request"
  /\ app = "connected" => act["client"] = "idle" /\ Silent("client")

(* The server reads one request, the first.                                *)
RequestComing ==
  act["server"] = "header" =>
    \/ requests = 0 /\ Silent("server")
    \/ requests = 1 /\ \E n \in Lengths : Coming("server", Request(n), 0)

RequestRead ==
  act["server"] = "body" =>
    requests = 1 /\ \E n \in 0..MaxBody : Reading("server", Request(n))

Unanswered ==
  act["server"] \in {"none", "header", "body"} =>
    /\ Silent("client") /\ got["client"] = <<>> /\ result = <<>>
    /\ act["client"] # "body"
    /\ app = "connected" => requests = 0

(* So the client reads one response, to its first request.                 *)
ResponseComing ==
  act["client"] \in {"idle", "send", "header"} =>
    \/ Silent("client")
    \/ requests = 1 /\ \E n \in Lengths : Coming("client", Response(n), 0)

ResponseRead ==
  act["client"] = "body" =>
    requests = 1 /\ \E n \in 0..MaxBody : Reading("client", Response(n))

Returned ==
  result # <<>> =>
    requests = 1 /\ \E n \in 0..MaxBody : result = Words(Response(n))

ClientInv == /\ TypeOK /\ BeforeConnect /\ InRequest
             /\ RequestComing /\ RequestRead /\ Unanswered
             /\ ResponseComing /\ ResponseRead /\ Returned

-----------------------------------------------------------------------------
(* Its initial states, and its steps.                                      *)

LEMMA WordTypes ==
  /\ \A m \in Messages : Words(m) \in Seq(Messages \X Nat)
  /\ \A n \in Lengths : n \in Nat
  /\ 0..MaxBody \subseteq Lengths
<1>1. \A n \in Lengths : n \in Nat
  BY ClientAssumption DEF Lengths
<1>2. 0..MaxBody \subseteq Lengths
  BY ClientAssumption DEF Lengths
<1>3. ASSUME NEW m \in Messages PROVE Words(m) \in Seq(Messages \X Nat)
  <2>1. m[3] + 1 \in Nat
    BY <1>1 DEF Messages
  <2>2. \A i \in 1..(m[3] + 1) : <<m, i - 1>> \in Messages \X Nat
    BY <2>1
  <2> QED BY <2>1, <2>2, IsASeq DEF Words
<1> QED BY <1>1, <1>2, <1>3

LEMMA InitClient == Init => ClientInv
<1> SUFFICES ASSUME Init PROVE ClientInv
  OBVIOUS
<1>1. <<>> \in Seq(Messages \X Nat)
  BY EmptySeq
<1>2. TypeOK
  <2>1. act \in [Sides -> {"none", "idle", "send", "header", "body", "failed",
                           "threw", "closed"}]
    BY DEF Init
  <2>2. /\ out \in [Sides -> Seq(Messages \X Nat)]
        /\ got \in [Sides -> Seq(Messages \X Nat)]
        /\ wire \in [Sides -> Seq(Messages \X Nat)]
    BY <1>1 DEF Init
  <2>3. need \in [Sides -> Nat]
    BY DEF Init
  <2>4. lost \in BOOLEAN /\ requests \in 0..MaxRequests
    <3>1. 0 \in 0..MaxRequests
      BY ClientAssumption
    <3> QED BY <3>1 DEF Init
  <2> QED BY <2>1, <2>2, <2>3, <2>4 DEF TypeOK
<1>3. BeforeConnect /\ InRequest /\ RequestComing /\ RequestRead
  BY DEF Init, BeforeConnect, InRequest, RequestComing, RequestRead, Silent, Sides, Peer
<1>4. Unanswered /\ ResponseComing /\ ResponseRead /\ Returned
  BY DEF Init, Unanswered, ResponseComing, ResponseRead, Returned, Silent, Sides, Peer
<1> QED BY <1>2, <1>3, <1>4 DEF ClientInv

(* A step that does not touch the socket, nor begins or ends a request.    *)
LEMMA CallerStep ==
  ASSUME ClientInv, UNCHANGED <<socket, requests, result>>,
         app' \in {"new", "connected"} => app' = app,
         act["client"] \in {"send", "header", "body"} => app' = app
  PROVE  ClientInv'
<1> USE DEF socket
<1>1. TypeOK'
  BY DEF ClientInv, TypeOK
<1>2. BeforeConnect'
  BY DEF ClientInv, BeforeConnect, Silent, Peer
<1>3. InRequest'
  BY DEF ClientInv, InRequest, Silent, Peer
<1>4. RequestComing'
  BY DEF ClientInv, RequestComing, Silent, Coming, Peer
<1>5. RequestRead'
  BY DEF ClientInv, RequestRead, Reading, Coming, Peer
<1>6. Unanswered'
  BY DEF ClientInv, Unanswered, Silent, Peer
<1>7. ResponseComing'
  BY DEF ClientInv, ResponseComing, Silent, Coming, Peer
<1>8. ResponseRead'
  BY DEF ClientInv, ResponseRead, Reading, Coming, Peer
<1>9. Returned'
  BY DEF ClientInv, Returned
<1> QED BY <1>1, <1>2, <1>3, <1>4, <1>5, <1>6, <1>7, <1>8, <1>9 DEF ClientInv

(* A step with which s is done with the connection; it may have read a     *)
(* word of it first.                                                       *)
LEMMA LeavingStep ==
  ASSUME ClientInv, NEW s \in Sides,
         \E x \in {"failed", "threw", "closed"} : act' = [act EXCEPT ![s] = x],
         \/ wire' = wire
         \/ wire[s] # <<>> /\ wire' = [wire EXCEPT ![s] = Tail(@)],
         lost' \in BOOLEAN,
         UNCHANGED <<out, got, need, requests, result>>,
         app' # "new",
         app' # app => app' \in {"disconnected", "destroyed"} /\ app # "request",
         s = "client" => app' # "connected"
  PROVE  ClientInv'
<1>1. TypeOK'
  <2>1. wire' \in [Sides -> Seq(Messages \X Nat)]
    <3>1. wire \in [Sides -> Seq(Messages \X Nat)]
      BY DEF ClientInv, TypeOK
    <3>2. wire[s] \in Seq(Messages \X Nat)
      BY <3>1
    <3>3. wire[s] # <<>> => Tail(wire[s]) \in Seq(Messages \X Nat)
      BY <3>2, HeadTailProperties
    <3> QED BY <3>1, <3>3
  <2>2. act' \in [Sides -> {"none", "idle", "send", "header", "body", "failed",
                            "threw", "closed"}]
    BY DEF ClientInv, TypeOK
  <2> QED BY <2>1, <2>2 DEF ClientInv, TypeOK
<1>2. BeforeConnect'
  BY DEF BeforeConnect
<1>3. CASE s = "server"
  <2>1. /\ act'["server"] \in {"failed", "threw", "closed"}
        /\ act'["client"] = act["client"]
        /\ wire'["client"] = wire["client"]
    BY <1>3 DEF ClientInv, TypeOK, Sides
  <2>2. InRequest'
    BY <2>1 DEF ClientInv, InRequest, Silent, Peer
  <2>3. RequestComing' /\ RequestRead' /\ Unanswered'
    BY <2>1 DEF RequestComing, RequestRead, Unanswered
  <2>4. ResponseComing'
    BY <2>1 DEF ClientInv, ResponseComing, Silent, Coming, Peer
  <2>5. ResponseRead'
    BY <2>1 DEF ClientInv, ResponseRead, Reading, Coming, Peer
  <2>6. Returned'
    BY DEF ClientInv, Returned
  <2> QED BY <1>1, <1>2, <2>2, <2>3, <2>4, <2>5, <2>6 DEF ClientInv
<1>4. CASE s = "client"
  <2>1. /\ act'["client"] \in {"failed", "threw", "closed"}
        /\ act'["server"] = act["server"]
        /\ wire'["server"] = wire["server"]
        /\ wire["client"] = <<>> => wire'["client"] = <<>>
    BY <1>4 DEF ClientInv, TypeOK, Sides
  <2>2. InRequest' /\ ResponseComing' /\ ResponseRead'
    BY <1>4, <2>1 DEF InRequest, ResponseComing, ResponseRead
  <2>3. RequestComing'
    BY <2>1 DEF ClientInv, RequestComing, Silent, Coming, Peer
  <2>4. RequestRead'
    BY <2>1 DEF ClientInv, RequestRead, Reading, Coming, Peer
  <2>5. Unanswered'
    BY <1>4, <2>1 DEF ClientInv, Unanswered, Silent, Peer
  <2>6. Returned'
    BY DEF ClientInv, Returned
  <2> QED BY <1>1, <1>2, <2>2, <2>3, <2>4, <2>5, <2>6 DEF ClientInv
<1> QED BY <1>3, <1>4 DEF Sides

LEMMA WriteStep ==
  ASSUME ClientInv, NEW s \in Sides, Write(s),
         UNCHANGED <<app, requests, result>>
  PROVE  ClientInv'
<1> USE DEF Write
<1>1. /\ wire' = [wire EXCEPT ![Peer(s)] = Append(@, Head(out[s]))]
      /\ out' = [out EXCEPT ![s] = Tail(@)]
      /\ out[s] # <<>>
      /\ UNCHANGED <<act, got, need, lost, app, requests, result>>
      /\ act[s] = "send"
  OBVIOUS
<1>2. TypeOK'
  <2>1. /\ out \in [Sides -> Seq(Messages \X Nat)]
        /\ wire \in [Sides -> Seq(Messages \X Nat)]
    BY DEF ClientInv, TypeOK
  <2>2. out[s] \in Seq(Messages \X Nat) /\ Peer(s) \in Sides
    BY <2>1 DEF Peer, Sides
  <2>3. Head(out[s]) \in Messages \X Nat /\ Tail(out[s]) \in Seq(Messages \X Nat)
    BY <1>1, <2>2, HeadTailProperties
  <2>4. wire[Peer(s)] \in Seq(Messages \X Nat)
    BY <2>1, <2>2
  <2>5. Append(wire[Peer(s)], Head(out[s])) \in Seq(Messages \X Nat)
    BY <2>3, <2>4, AppendProperties
  <2>6. out' \in [Sides -> Seq(Messages \X Nat)]
    BY <1>1, <2>1, <2>3
  <2>7. wire' \in [Sides -> Seq(Messages \X Nat)]
    BY <1>1, <2>1, <2>5
  <2> QED BY <1>1, <2>6, <2>7 DEF ClientInv, TypeOK
<1> HIDE DEF Write
<1>3. BeforeConnect'
  BY <1>1 DEF ClientInv, BeforeConnect, Sides
<1>4. Returned'
  BY <1>1 DEF ClientInv, Returned
<1>5. CASE s = "client"
  <2>1. /\ wire'["server"] = Append(wire["server"], Head(out["client"]))
        /\ wire'["client"] = wire["client"]
        /\ out'["client"] = Tail(out["client"])
        /\ out'["server"] = out["server"]
        /\ act["client"] = "send" /\ app = "request" /\ out["client"] # <<>>
    BY <1>1, <1>5 DEF ClientInv, TypeOK, InRequest, Peer, Sides
  <2>2. ASSUME NEW n \in Lengths, NEW g \in Nat, Coming("server", Request(n), g)
        PROVE  Coming("server", Request(n), g)'
    <3>1. Request(n)[3] \in Nat
      BY WordTypes DEF Request
    <3> QED BY <2>1, <2>2, <3>1, RestWrite DEF Coming, Peer
  <2>3. InRequest'
    BY <1>1, <2>1 DEF ClientInv, InRequest
  <2>4. RequestComing'
    <3> SUFFICES ASSUME act["server"] = "header" PROVE RequestComing'
      BY <1>1 DEF RequestComing
    <3>1. ~Silent("server")
      BY <2>1 DEF Silent, Peer
    <3>2. requests = 1 /\ \E n \in Lengths : Coming("server", Request(n), 0)
      BY <3>1 DEF ClientInv, RequestComing
    <3>3. \E n \in Lengths : Coming("server", Request(n), 0)'
      BY <2>2, <3>2
    <3> QED BY <1>1, <3>2, <3>3 DEF RequestComing
  <2>5. RequestRead'
    <3> SUFFICES ASSUME act["server"] = "body" PROVE RequestRead'
      BY <1>1 DEF RequestRead
    <3>1. PICK n \in 0..MaxBody : requests = 1 /\ Reading("server", Request(n))
      BY DEF ClientInv, RequestRead
    <3>2. PICK g \in 1..(Request(n)[3] + 1) :
            got["server"] = Part(Request(n), 0, g) /\ Coming("server", Request(n), g)
      BY <3>1 DEF Reading
    <3>3. n \in Lengths /\ g \in Nat
      BY WordTypes DEF Request
    <3>4. Coming("server", Request(n), g)'
      BY <2>2, <3>2, <3>3
    <3>5. Reading("server", Request(n))'
      BY <1>1, <3>1, <3>2, <3>4 DEF Reading
    <3> QED BY <1>1, <3>1, <3>5 DEF RequestRead
  <2>6. Unanswered'
    BY <1>1, <2>1 DEF ClientInv, Unanswered, Silent, Peer
  <2>7. ResponseComing' /\ ResponseRead'
    BY <1>1, <2>1 DEF ClientInv, ResponseComing, ResponseRead, Silent, Coming, Peer
  <2> QED BY <1>2, <1>3, <1>4, <2>3, <2>4, <2>5, <2>6, <2>7 DEF ClientInv
<1>6. CASE s = "server"
  <2>1. /\ wire'["client"] = Append(wire["client"], Head(out["server"]))
        /\ wire'["server"] = wire["server"]
        /\ out'["server"] = Tail(out["server"])
        /\ out'["client"] = out["client"]
        /\ act["server"] = "send" /\ out["server"] # <<>>
    BY <1>1, <1>6 DEF ClientInv, TypeOK, Peer, Sides
  <2>2. ASSUME NEW n \in Lengths, NEW g \in Nat, Coming("client", Response(n), g)
        PROVE  Coming("client", Response(n), g)'
    <3>1. Response(n)[3] \in Nat
      BY WordTypes DEF Response
    <3> QED BY <2>1, <2>2, <3>1, RestWrite DEF Coming, Peer
  <2>3. ~Silent("client")
    BY <2>1 DEF Silent, Peer
  <2>4. InRequest'
    BY <1>1, <2>3 DEF ClientInv, InRequest
  <2>5. RequestComing' /\ RequestRead' /\ Unanswered'
    BY <1>1, <2>1 DEF RequestComing, RequestRead, Unanswered
  <2>6. ResponseComing'
    <3> SUFFICES ASSUME act["client"] \in {"idle", "send", "header"}
                 PROVE  ResponseComing'
      BY <1>1 DEF ResponseComing
    <3>1. requests = 1 /\ \E n \in Lengths : Coming("client", Response(n), 0)
      BY <2>3 DEF ClientInv, ResponseComing
    <3>2. \E n \in Lengths : Coming("client", Response(n), 0)'
      BY <2>2, <3>1
    <3> QED BY <1>1, <3>1, <3>2 DEF ResponseComing
  <2>7. ResponseRead'
    <3> SUFFICES ASSUME act["client"] = "body" PROVE ResponseRead'
      BY <1>1 DEF ResponseRead
    <3>1. PICK n \in 0..MaxBody : requests = 1 /\ Reading("client", Response(n))
      BY DEF ClientInv, ResponseRead
    <3>2. PICK g \in 1..(Response(n)[3] + 1) :
            got["client"] = Part(Response(n), 0, g) /\ Coming("client", Response(n), g)
      BY <3>1 DEF Reading
    <3>3. n \in Lengths /\ g \in Nat
      BY WordTypes DEF Response
    <3>4. Coming("client", Response(n), g)'
      BY <2>2, <3>2, <3>3
    <3>5. Reading("client", Response(n))'
      BY <1>1, <3>1, <3>2, <3>4 DEF Reading
    <3> QED BY <1>1, <3>1, <3>5 DEF ResponseRead
  <2> QED BY <1>2, <1>3, <1>4, <2>4, <2>5, <2>6, <2>7 DEF ClientInv
<1> QED BY <1>5, <1>6 DEF Sides

LEMMA WriteToClosedStep ==
  ASSUME ClientInv, NEW s \in Sides, WriteToClosed(s),
         UNCHANGED <<app, requests, result>>
  PROVE  ClientInv'
<1>1. /\ out' = [out EXCEPT ![s] = Tail(@)]
      /\ out[s] # <<>>
      /\ lost' \in BOOLEAN
      /\ UNCHANGED <<act, got, need, wire, app, requests, result>>
      /\ act[s] = "send" /\ act[Peer(s)] = "closed"
  BY DEF WriteToClosed
<1>2. TypeOK'
  <2>1. out \in [Sides -> Seq(Messages \X Nat)]
    BY DEF ClientInv, TypeOK
  <2>2. out[s] \in Seq(Messages \X Nat)
    BY <2>1
  <2>3. Tail(out[s]) \in Seq(Messages \X Nat)
    BY <1>1, <2>2, HeadTailProperties
  <2>4. out' \in [Sides -> Seq(Messages \X Nat)]
    BY <1>1, <2>1, <2>3
  <2> QED BY <1>1, <2>4 DEF ClientInv, TypeOK
<1>3. BeforeConnect' /\ Returned'
  BY <1>1 DEF ClientInv, BeforeConnect, Returned, Sides
<1>4. CASE s = "client"
  <2>1. /\ out'["server"] = out["server"]
        /\ act["server"] = "closed"
    BY <1>1, <1>4 DEF ClientInv, TypeOK, Peer, Sides
  <2>2. RequestComing' /\ RequestRead' /\ Unanswered'
    BY <1>1, <2>1 DEF RequestComing, RequestRead, Unanswered
  <2>3. InRequest' /\ ResponseComing'
    BY <1>1, <2>1 DEF ClientInv, InRequest, ResponseComing, Silent, Coming, Peer
  <2>4. ResponseRead'
    BY <1>1, <2>1 DEF ClientInv, ResponseRead, Reading, Coming, Peer
  <2> QED BY <1>2, <1>3, <2>2, <2>3, <2>4 DEF ClientInv
<1>5. CASE s = "server"
  <2>1. act["client"] = "closed" /\ act["server"] = "send"
    BY <1>1, <1>5 DEF Peer
  <2>2. /\ RequestComing' /\ RequestRead' /\ Unanswered'
        /\ ResponseComing' /\ ResponseRead'
    BY <1>1, <2>1 DEF RequestComing, RequestRead, Unanswered, ResponseComing, ResponseRead
  <2>3. InRequest'
    BY <1>1, <2>1 DEF ClientInv, InRequest
  <2> QED BY <1>2, <1>3, <2>2, <2>3 DEF ClientInv
<1> QED BY <1>4, <1>5 DEF Sides

(* The first word of a message is its header.                              *)
LEMMA HeaderRead ==
  ASSUME NEW m, m[3] \in Nat, NEW q, NEW r, Rest(q, r, m, 0), q # <<>>,
         NEW n \in BodyLengths(Head(q))
  PROVE  n = m[3] /\ <<Head(q)>> = Part(m, 0, 1) /\ Rest(Tail(q), r, m, 1)
<1>1. Head(q) = <<m, 0>> /\ Rest(Tail(q), r, m, 0 + 1)
  BY RestRead
<1>2. Head(q)[2] = 0 /\ Head(q)[1][3] = m[3]
  BY <1>1
<1>3. n = m[3]
  BY <1>2 DEF BodyLengths
<1>4. Append(Part(m, 0, 0), <<m, 0 + 0>>) = Part(m, 0, 0 + 1)
  BY PartAppend
<1>5. Part(m, 0, 0) = <<>>
  BY PartIsSeq
<1>6. Append(<<>>, <<m, 0>>) = <<<<m, 0>>>>
  OBVIOUS
<1>7. 0 + 0 = 0 /\ 0 + 1 = 1
  OBVIOUS
<1> QED BY <1>1, <1>3, <1>4, <1>5, <1>6, <1>7

LEMMA ReadHeaderStep ==
  ASSUME ClientInv, NEW s \in Sides, ReadHeader(s),
         UNCHANGED <<app, requests, result>>
  PROVE  ClientInv'
<1>1. /\ act[s] = "header" /\ wire[s] # <<>>
      /\ wire' = [wire EXCEPT ![s] = Tail(@)]
      /\ UNCHANGED <<out, lost, app, requests, result>>
  BY DEF ReadHeader
<1>a. app # "new" /\ (s = "client" => app # "connected")
  BY <1>1 DEF ClientInv, BeforeConnect, InRequest, Sides
<1>2. CASE /\ act' = [act EXCEPT ![s] = IF lost THEN "threw" ELSE "failed"]
           /\ UNCHANGED <<got, need>>
  <2>1. \E x \in {"failed", "threw", "closed"} : act' = [act EXCEPT ![s] = x]
    BY <1>2
  <2>2. lost' \in BOOLEAN
    BY <1>1 DEF ClientInv, TypeOK
  <2> QED BY <1>1, <1>2, <1>a, <2>1, <2>2, LeavingStep
<1>3. ASSUME NEW n \in BodyLengths(Head(wire[s])),
             n <= MaxBody,
             act' = [act EXCEPT ![s] = "body"],
             got' = [got EXCEPT ![s] = <<Head(wire[s])>>],
             need' = [need EXCEPT ![s] = n + 1]
      PROVE  ClientInv'
  <2>1. wire[s] \in Seq(Messages \X Nat)
    BY DEF ClientInv, TypeOK
  <2>2. /\ Head(wire[s]) \in Messages \X Nat
        /\ Tail(wire[s]) \in Seq(Messages \X Nat)
    BY <1>1, <2>1, HeadTailProperties
  <2>3. <<Head(wire[s])>> \in Seq(Messages \X Nat)
    BY <2>2
  <2>4. n \in Nat
    BY <2>2, WordTypes DEF BodyLengths, Messages
  <2>5. TypeOK'
    <3>1. act' \in [Sides -> {"none", "idle", "send", "header", "body", "failed",
                              "threw", "closed"}]
      BY <1>3 DEF ClientInv, TypeOK
    <3>2. got' \in [Sides -> Seq(Messages \X Nat)]
      BY <1>3, <2>3 DEF ClientInv, TypeOK
    <3>3. wire' \in [Sides -> Seq(Messages \X Nat)]
      BY <1>1, <2>2 DEF ClientInv, TypeOK
    <3>4. need' \in [Sides -> Nat]
      BY <1>3, <2>4 DEF ClientInv, TypeOK
    <3> QED BY <1>1, <3>1, <3>2, <3>3, <3>4 DEF ClientInv, TypeOK
  <2>6. BeforeConnect' /\ Returned'
    BY <1>1, <1>a DEF ClientInv, BeforeConnect, Returned
  <2>7. CASE s = "server"
    <3>1. /\ act'["server"] = "body" /\ act'["client"] = act["client"]
          /\ got'["server"] = <<Head(wire["server"])>> /\ got'["client"] = got["client"]
          /\ wire'["server"] = Tail(wire["server"]) /\ wire'["client"] = wire["client"]
          /\ need'["server"] = n + 1 /\ need'["client"] = need["client"]
      BY <1>1, <1>3, <2>7 DEF ClientInv, TypeOK, Sides
    <3>2. PICK k \in Lengths : Coming("server", Request(k), 0)
      BY <1>1, <2>7 DEF ClientInv, RequestComing, Silent
    <3>3. requests = 1
      BY <1>1, <2>7 DEF ClientInv, RequestComing, Silent
    <3>4. Request(k)[3] = k /\ k \in Nat
      BY WordTypes DEF Request
    <3>5. /\ n = k /\ <<Head(wire["server"])>> = Part(Request(k), 0, 1)
          /\ Rest(Tail(wire["server"]), out["client"], Request(k), 1)
      BY <1>1, <2>7, <3>2, <3>4, HeaderRead DEF Coming, Peer
    <3>6. Reading("server", Request(n))'
      <4>1. Coming("server", Request(n), 1)'
        BY <1>1, <3>1, <3>5 DEF Coming, Peer
      <4>2. 1 \in 1..(Request(n)[3] + 1)
        BY <3>4, <3>5
      <4>3. got'["server"] = Part(Request(n), 0, 1)
        BY <3>1, <3>5
      <4>4. need'["server"] = Request(n)[3] + 1
        BY <3>1, <3>4, <3>5
      <4> QED BY <4>1, <4>2, <4>3, <4>4 DEF Reading
    <3>7. n \in 0..MaxBody
      BY <1>3, <2>4, ClientAssumption
    <3>8. RequestRead'
      BY <1>1, <3>3, <3>6, <3>7 DEF RequestRead
    <3>9. RequestComing'
      BY <3>1 DEF RequestComing
    <3>10. InRequest'
      BY <1>1, <3>1 DEF ClientInv, InRequest, Silent, Peer
    <3>11. Unanswered'
      BY <1>1, <2>7, <3>1 DEF ClientInv, Unanswered, Silent, Peer
    <3>12. ResponseComing'
      BY <1>1, <3>1 DEF ClientInv, ResponseComing, Silent, Coming, Peer
    <3>13. ResponseRead'
      BY <1>1, <3>1 DEF ClientInv, ResponseRead, Reading, Coming, Peer
    <3> QED BY <2>5, <2>6, <3>8, <3>9, <3>10, <3>11, <3>12, <3>13 DEF ClientInv
  <2>8. CASE s = "client"
    <3>1. /\ act'["client"] = "body" /\ act'["server"] = act["server"]
          /\ got'["client"] = <<Head(wire["client"])>> /\ got'["server"] = got["server"]
          /\ wire'["client"] = Tail(wire["client"]) /\ wire'["server"] = wire["server"]
          /\ need'["client"] = n + 1 /\ need'["server"] = need["server"]
      BY <1>1, <1>3, <2>8 DEF ClientInv, TypeOK, Sides
    <3>2. PICK k \in Lengths : Coming("client", Response(k), 0)
      BY <1>1, <2>8 DEF ClientInv, ResponseComing, Silent
    <3>3. requests = 1
      BY <1>1, <2>8 DEF ClientInv, ResponseComing, Silent
    <3>4. Response(k)[3] = k /\ k \in Nat
      BY WordTypes DEF Response
    <3>5. /\ n = k /\ <<Head(wire["client"])>> = Part(Response(k), 0, 1)
          /\ Rest(Tail(wire["client"]), out["server"], Response(k), 1)
      BY <1>1, <2>8, <3>2, <3>4, HeaderRead DEF Coming, Peer
    <3>6. Reading("client", Response(n))'
      <4>1. Coming("client", Response(n), 1)'
        BY <1>1, <3>1, <3>5 DEF Coming, Peer
      <4>2. 1 \in 1..(Response(n)[3] + 1)
        BY <3>4, <3>5
      <4>3. got'["client"] = Part(Response(n), 0, 1)
        BY <3>1, <3>5
      <4>4. need'["client"] = Response(n)[3] + 1
        BY <3>1, <3>4, <3>5
      <4> QED BY <4>1, <4>2, <4>3, <4>4 DEF Reading
    <3>7. n \in 0..MaxBody
      BY <1>3, <2>4, ClientAssumption
    <3>8. ResponseRead'
      BY <1>1, <3>3, <3>6, <3>7 DEF ResponseRead
    <3>9. ResponseComing'
      BY <3>1 DEF ResponseComing
    <3>10. InRequest'
      BY <1>1, <1>a, <2>8, <3>1 DEF ClientInv, InRequest
    <3>11. Unanswered'
      BY <1>1, <2>8, <3>1 DEF ClientInv, Unanswered, Silent
    <3>12. RequestComing'
      BY <1>1, <3>1 DEF ClientInv, RequestComing, Silent, Coming, Peer
    <3>13. RequestRead'
      BY <1>1, <3>1 DEF ClientInv, RequestRead, Reading, Coming, Peer
    <3> QED BY <2>5, <2>6, <3>8, <3>9, <3>10, <3>11, <3>12, <3>13 DEF ClientInv
  <2> QED BY <2>7, <2>8 DEF Sides
<1> QED BY <1>2, <1>3 DEF ReadHeader

(* A word that is read after it is the next of the body.                   *)
LEMMA BodyRead ==
  ASSUME NEW m, m[3] \in Nat, NEW q, NEW r, NEW g \in 1..(m[3] + 1),
         Rest(q, r, m, g), q # <<>>
  PROVE  /\ g + 1 \in 1..(m[3] + 1)
         /\ Append(Part(m, 0, g), Head(q)) = Part(m, 0, g + 1)
         /\ Rest(Tail(q), r, m, g + 1)
<1>1. g \in Nat
  OBVIOUS
<1>2. Head(q) = <<m, g>> /\ g <= m[3] /\ Rest(Tail(q), r, m, g + 1)
  BY <1>1, RestRead
<1>3. Append(Part(m, 0, g), <<m, 0 + g>>) = Part(m, 0, g + 1)
  BY <1>1, PartAppend
<1>4. 0 + g = g /\ g + 1 \in 1..(m[3] + 1)
  BY <1>2
<1> QED BY <1>2, <1>3, <1>4

LEMMA ReadBodyStep ==
  ASSUME ClientInv, NEW s \in Sides, ReadBody(s),
         UNCHANGED <<app, requests, result>>
  PROVE  ClientInv'
<1>1. /\ act[s] = "body" /\ wire[s] # <<>>
      /\ got' = [got EXCEPT ![s] = Append(@, Head(wire[s]))]
      /\ wire' = [wire EXCEPT ![s] = Tail(@)]
      /\ UNCHANGED <<act, out, need, lost, app, requests, result>>
  BY DEF ReadBody
<1>2. TypeOK'
  <2>1. wire[s] \in Seq(Messages \X Nat) /\ got[s] \in Seq(Messages \X Nat)
    BY DEF ClientInv, TypeOK
  <2>2. /\ Head(wire[s]) \in Messages \X Nat
        /\ Tail(wire[s]) \in Seq(Messages \X Nat)
    BY <1>1, <2>1, HeadTailProperties
  <2>3. Append(got[s], Head(wire[s])) \in Seq(Messages \X Nat)
    BY <2>1, <2>2, AppendProperties
  <2>4. got' \in [Sides -> Seq(Messages \X Nat)]
    BY <1>1, <2>3 DEF ClientInv, TypeOK
  <2>5. wire' \in [Sides -> Seq(Messages \X Nat)]
    BY <1>1, <2>2 DEF ClientInv, TypeOK
  <2> QED BY <1>1, <2>4, <2>5 DEF ClientInv, TypeOK
<1>3. BeforeConnect' /\ Returned'
  BY <1>1 DEF ClientInv, BeforeConnect, Returned, Sides
<1>4. CASE s = "server"
  <2>1. /\ got'["server"] = Append(got["server"], Head(wire["server"]))
        /\ got'["client"] = got["client"]
        /\ wire'["server"] = Tail(wire["server"]) /\ wire'["client"] = wire["client"]
        /\ act["server"] = "body" /\ wire["server"] # <<>>
    BY <1>1, <1>4 DEF ClientInv, TypeOK, Sides
  <2>2. PICK n \in 0..MaxBody : requests = 1 /\ Reading("server", Request(n))
    BY <2>1 DEF ClientInv, RequestRead
  <2>3. PICK g \in 1..(Request(n)[3] + 1) :
          got["server"] = Part(Request(n), 0, g) /\ Coming("server", Request(n), g)
    BY <2>2 DEF Reading
  <2>4. Request(n)[3] \in Nat
    BY WordTypes DEF Request
  <2>5. /\ g + 1 \in 1..(Request(n)[3] + 1)
        /\ got'["server"] = Part(Request(n), 0, g + 1)
        /\ Rest(Tail(wire["server"]), out["client"], Request(n), g + 1)
    BY <2>1, <2>3, <2>4, BodyRead DEF Coming, Peer
  <2>6. Coming("server", Request(n), g + 1)'
    BY <1>1, <2>1, <2>5 DEF Coming, Peer
  <2>7. Reading("server", Request(n))'
    BY <1>1, <2>2, <2>5, <2>6 DEF Reading
  <2>8. RequestRead'
    BY <1>1, <2>2, <2>7 DEF RequestRead
  <2>9. RequestComing'
    BY <1>1, <2>1 DEF RequestComing
  <2>10. InRequest' /\ Unanswered'
    BY <1>1, <2>1 DEF ClientInv, InRequest, Unanswered, Silent, Peer
  <2>11. ResponseComing'
    BY <1>1, <2>1 DEF ClientInv, ResponseComing, Silent, Coming, Peer
  <2>12. ResponseRead'
    BY <1>1, <2>1 DEF ClientInv, ResponseRead, Reading, Coming, Peer
  <2> QED BY <1>2, <1>3, <2>8, <2>9, <2>10, <2>11, <2>12 DEF ClientInv
<1>5. CASE s = "client"
  <2>1. /\ got'["client"] = Append(got["client"], Head(wire["client"]))
        /\ got'["server"] = got["server"]
        /\ wire'["client"] = Tail(wire["client"]) /\ wire'["server"] = wire["server"]
        /\ act["client"] = "body" /\ wire["client"] # <<>>
    BY <1>1, <1>5 DEF ClientInv, TypeOK, Sides
  <2>2. PICK n \in 0..MaxBody : requests = 1 /\ Reading("client", Response(n))
    BY <2>1 DEF ClientInv, ResponseRead
  <2>3. PICK g \in 1..(Response(n)[3] + 1) :
          got["client"] = Part(Response(n), 0, g) /\ Coming("client", Response(n), g)
    BY <2>2 DEF Reading
  <2>4. Response(n)[3] \in Nat
    BY WordTypes DEF Response
  <2>5. /\ g + 1 \in 1..(Response(n)[3] + 1)
        /\ got'["client"] = Part(Response(n), 0, g + 1)
        /\ Rest(Tail(wire["client"]), out["server"], Response(n), g + 1)
    BY <2>1, <2>3, <2>4, BodyRead DEF Coming, Peer
  <2>6. Coming("client", Response(n), g + 1)'
    BY <1>1, <2>1, <2>5 DEF Coming, Peer
  <2>7. Reading("client", Response(n))'
    BY <1>1, <2>2, <2>5, <2>6 DEF Reading
  <2>8. ResponseRead'
    BY <1>1, <2>2, <2>7 DEF ResponseRead
  <2>9. ResponseComing'
    BY <1>1, <2>1 DEF ResponseComing
  <2>10. InRequest' /\ Unanswered'
    BY <1>1, <2>1 DEF ClientInv, InRequest, Unanswered, Silent
  <2>11. RequestComing'
    BY <1>1, <2>1 DEF ClientInv, RequestComing, Silent, Coming, Peer
  <2>12. RequestRead'
    BY <1>1, <2>1 DEF ClientInv, RequestRead, Reading, Coming, Peer
  <2> QED BY <1>2, <1>3, <2>8, <2>9, <2>10, <2>11, <2>12 DEF ClientInv
<1> QED BY <1>4, <1>5 DEF Sides

LEMMA ResetStep ==
  ASSUME ClientInv, Reset PROVE ClientInv'
<1>1. UNCHANGED <<act, out, got, need, wire, app, requests, result>> /\ lost' = TRUE
  BY DEF Reset
<1>2. TypeOK' /\ BeforeConnect' /\ InRequest' /\ Returned'
  BY <1>1 DEF ClientInv, TypeOK, BeforeConnect, InRequest, Returned, Silent, Peer
<1>3. RequestComing' /\ Unanswered' /\ ResponseComing'
  BY <1>1 DEF ClientInv, RequestComing, Unanswered, ResponseComing, Silent, Coming, Peer
<1>4. RequestRead' /\ ResponseRead'
  BY <1>1 DEF ClientInv, RequestRead, ResponseRead, Reading, Coming, Peer
<1> QED BY <1>2, <1>3, <1>4 DEF ClientInv

LEMMA ConnectStep ==
  ASSUME ClientInv, Connect PROVE ClientInv'
<1>1. /\ app = "new"
      /\ UNCHANGED <<out, got, need, wire, lost, requests, result>>
  BY DEF Connect
<1>2. CASE app' = "unconnected" /\ UNCHANGED act
  <2>1. act["client"] = "none"
    BY <1>1 DEF ClientInv, BeforeConnect
  <2> QED BY <1>1, <1>2, <2>1, CallerStep DEF socket
<1>3. CASE app' = "connected" /\ act' = [client |-> "idle", server |-> "header"]
  <2>1. act'["client"] = "idle" /\ act'["server"] = "header"
    BY <1>3
  <2>2. /\ Silent("client")' /\ Silent("server")' /\ requests' = 0
    BY <1>1 DEF ClientInv, BeforeConnect, Silent, Peer
  <2>3. TypeOK'
    <3>1. act' \in [Sides -> {"none", "idle", "send", "header", "body", "failed",
                              "threw", "closed"}]
      BY <1>3 DEF Sides
    <3> QED BY <1>1, <3>1 DEF ClientInv, TypeOK
  <2>4. BeforeConnect' /\ InRequest' /\ RequestRead' /\ ResponseRead'
    BY <1>3, <2>1, <2>2 DEF BeforeConnect, InRequest, RequestRead, ResponseRead
  <2>5. RequestComing' /\ ResponseComing'
    BY <2>1, <2>2 DEF RequestComing, ResponseComing
  <2>6. got["client"] = <<>> /\ result = <<>>
    BY <1>1 DEF ClientInv, BeforeConnect, Unanswered
  <2>7. Unanswered' /\ Returned'
    BY <1>1, <2>1, <2>2, <2>6 DEF Unanswered, Returned
  <2> QED BY <2>3, <2>4, <2>5, <2>7 DEF ClientInv
<1> QED BY <1>2, <1>3 DEF Connect

LEMMA SendRequestStep ==
  ASSUME ClientInv, NEW n \in Lengths, SendRequest(n) PROVE ClientInv'
<1> DEFINE m == <<"request", requests + 1, n>>
<1>1. /\ app = "connected" /\ requests < MaxRequests
      /\ app' = "request" /\ requests' = requests + 1 /\ result' = <<>>
      /\ act' = [act EXCEPT !["client"] = "send"]
      /\ out' = [out EXCEPT !["client"] = Words(m)]
      /\ UNCHANGED <<got, need, wire, lost>>
  BY DEF SendRequest, BeginSend
<1>2. m \in Messages /\ requests' \in 0..MaxRequests
  <2>1. requests + 1 \in 1..MaxRequests
    BY <1>1, ClientAssumption DEF ClientInv, TypeOK
  <2> QED BY <1>1, <2>1 DEF Messages
<1>3. Words(m) \in Seq(Messages \X Nat)
  BY <1>2, WordTypes
<1> HIDE DEF m
<1>4. TypeOK'
  <2>1. act' \in [Sides -> {"none", "idle", "send", "header", "body", "failed",
                            "threw", "closed"}]
    BY <1>1 DEF ClientInv, TypeOK
  <2>2. out' \in [Sides -> Seq(Messages \X Nat)]
    BY <1>1, <1>3 DEF ClientInv, TypeOK
  <2> QED BY <1>1, <1>2, <2>1, <2>2 DEF ClientInv, TypeOK
<1>5. /\ act'["client"] = "send" /\ act'["server"] = act["server"]
      /\ out'["client"] = Words(m) /\ out'["server"] = out["server"]
  BY <1>1 DEF ClientInv, TypeOK, Sides
<1>6. Silent("client")'
  BY <1>1, <1>5 DEF ClientInv, InRequest, Silent, Peer
<1>7. BeforeConnect' /\ InRequest' /\ ResponseComing' /\ ResponseRead' /\ Returned'
  BY <1>1, <1>5, <1>6
     DEF BeforeConnect, InRequest, ResponseComing, ResponseRead, Returned
<1>8. CASE act["server"] \in {"none", "header", "body"}
  <2>1. requests = 0 /\ got["client"] = <<>>
    BY <1>1, <1>8 DEF ClientInv, Unanswered
  <2>2. act["server"] # "body"
    BY <2>1 DEF ClientInv, RequestRead
  <2>3. Unanswered' /\ RequestRead'
    BY <1>1, <1>5, <1>6, <2>1, <2>2 DEF Unanswered, RequestRead
  <2>4. RequestComing'
    <3> SUFFICES ASSUME act["server"] = "header" PROVE RequestComing'
      BY <1>5 DEF RequestComing
    <3>1. wire["server"] = <<>>
      BY <2>1 DEF ClientInv, RequestComing, Silent
    <3>2. m = Request(n) /\ requests' = 1
      BY <1>1, <2>1 DEF m, Request
    <3>3. m[3] \in Nat
      BY WordTypes DEF m
    <3>4. Rest(<<>>, Words(m), m, 0)
      BY <3>3, RestBegins
    <3>5. Coming("server", Request(n), 0)'
      BY <1>1, <1>5, <3>1, <3>2, <3>4 DEF Coming, Peer
    <3> QED BY <3>2, <3>5 DEF RequestComing
  <2> QED BY <1>4, <1>7, <2>3, <2>4 DEF ClientInv
<1>9. CASE act["server"] \notin {"none", "header", "body"}
  <2>1. Unanswered' /\ RequestRead' /\ RequestComing'
    BY <1>5, <1>9 DEF Unanswered, RequestRead, RequestComing
  <2> QED BY <1>4, <1>7, <2>1 DEF ClientInv
<1> QED BY <1>8, <1>9

LEMMA AwaitResponseStep ==
  ASSUME ClientInv, AwaitResponse PROVE ClientInv'
<1>1. /\ act["client"] = "send" /\ app = "request"
      /\ act' = [act EXCEPT !["client"] = "header"]
      /\ UNCHANGED <<out, got, need, wire, lost, app, requests, result>>
  BY DEF AwaitResponse, Sent
<1>2. act'["client"] = "header" /\ act'["server"] = act["server"]
  BY <1>1 DEF ClientInv, TypeOK, Sides
<1>3. TypeOK'
  <2>1. act' \in [Sides -> {"none", "idle", "send", "header", "body", "failed",
                            "threw", "closed"}]
    BY <1>1 DEF ClientInv, TypeOK
  <2> QED BY <1>1, <2>1 DEF ClientInv, TypeOK
<1>4. BeforeConnect' /\ InRequest' /\ ResponseRead' /\ Returned'
  BY <1>1, <1>2 DEF ClientInv, BeforeConnect, InRequest, ResponseRead, Returned
<1>5. RequestComing' /\ Unanswered' /\ ResponseComing'
  BY <1>1, <1>2 DEF ClientInv, RequestComing, Unanswered, ResponseComing, Silent, Coming,
                    Peer
<1>6. RequestRead'
  BY <1>1, <1>2 DEF ClientInv, RequestRead, Reading, Coming, Peer
<1> QED BY <1>3, <1>4, <1>5, <1>6 DEF ClientInv

(* What has been read when all of a message has is the message.            *)
LEMMA ReadWhole ==
  ASSUME NEW s \in Sides, NEW m, m[3] \in Nat, Reading(s, m), Len(got[s]) = need[s]
  PROVE  got[s] = Words(m) /\ Silent(s)
<1>1. PICK g \in 1..(m[3] + 1) : got[s] = Part(m, 0, g) /\ Coming(s, m, g)
  BY DEF Reading
<1>2. Len(got[s]) = g
  <2>1. g \in Nat /\ 0 \in Nat
    OBVIOUS
  <2>2. Len(Part(m, 0, g)) = g
    BY <2>1, PartIsSeq
  <2> QED BY <1>1, <2>2
<1>3. g = m[3] + 1 /\ g \in Nat
  BY <1>2 DEF Reading
<1>4. Silent(s)
  BY <1>1, <1>3, RestEnds DEF Coming, Silent
<1> QED BY <1>1, <1>3, <1>4, RestBegins

LEMMA ReturnResponseStep ==
  ASSUME ClientInv, ReturnResponse PROVE ClientInv'
<1>1. /\ act["client"] = "body" /\ app = "request"
      /\ Len(got["client"]) = need["client"]
      /\ app' = "connected" /\ result' = got["client"]
      /\ act' = [act EXCEPT !["client"] = "idle"]
      /\ UNCHANGED <<out, got, need, wire, lost, requests>>
  BY DEF ReturnResponse, Received
<1>2. act'["client"] = "idle" /\ act'["server"] = act["server"]
  BY <1>1 DEF ClientInv, TypeOK, Sides
<1>3. TypeOK'
  <2>1. act' \in [Sides -> {"none", "idle", "send", "header", "body", "failed",
                            "threw", "closed"}]
    BY <1>1 DEF ClientInv, TypeOK
  <2> QED BY <1>1, <2>1 DEF ClientInv, TypeOK
<1>4. PICK n \in 0..MaxBody : requests = 1 /\ Reading("client", Response(n))
  BY <1>1 DEF ClientInv, ResponseRead
<1>5. got["client"] = Words(Response(n)) /\ Silent("client")
  <2>1. Response(n)[3] \in Nat
    BY DEF Response
  <2> QED BY <1>1, <1>4, <2>1, ReadWhole DEF Sides
<1>6. Returned'
  BY <1>1, <1>4, <1>5 DEF Returned
<1>7. Silent("client")'
  BY <1>1, <1>5 DEF Silent, Peer
<1>8. act["server"] \notin {"none", "header", "body"}
  BY <1>1 DEF ClientInv, Unanswered
<1>9. BeforeConnect' /\ InRequest' /\ ResponseComing' /\ ResponseRead'
  BY <1>1, <1>2, <1>7 DEF BeforeConnect, InRequest, ResponseComing, ResponseRead
<1>10. RequestComing' /\ RequestRead' /\ Unanswered'
  BY <1>2, <1>8 DEF RequestComing, RequestRead, Unanswered
<1> QED BY <1>3, <1>6, <1>9, <1>10 DEF ClientInv

(* What the request handler is given is the request.                       *)
LEMMA RequestWhole ==
  ASSUME ClientInv, Received("server")
  PROVE  /\ requests = 1
         /\ \E n \in 0..MaxBody : got["server"] = Words(Request(n))
         /\ got["server"][1][1][2] = 1
<1>1. act["server"] = "body" /\ Len(got["server"]) = need["server"]
  BY DEF Received
<1>2. PICK n \in 0..MaxBody : requests = 1 /\ Reading("server", Request(n))
  BY <1>1 DEF ClientInv, RequestRead
<1>3. Request(n)[3] \in Nat
  BY DEF Request
<1>4. got["server"] = Words(Request(n))
  BY <1>1, <1>2, <1>3, ReadWhole DEF Sides
<1>5. Words(Request(n))[1] = <<Request(n), 1 - 1>>
  BY <1>3 DEF Words
<1>6. got["server"][1][1][2] = 1
  BY <1>4, <1>5 DEF Request
<1> QED BY <1>2, <1>4, <1>6

LEMMA RespondStep ==
  ASSUME ClientInv, Respond PROVE ClientInv'
<1>1. /\ act["server"] = "body" /\ Received("server")
      /\ UNCHANGED <<got, need, wire, lost, app, requests, result>>
  BY DEF Respond, Received
<1>2. requests = 1 /\ got["server"][1][1][2] = 1
  BY <1>1, RequestWhole
<1>3. PICK n \in Lengths : /\ act' = [act EXCEPT !["server"] = "send"]
                           /\ out' = [out EXCEPT !["server"] = Words(Response(n))]
  BY <1>2 DEF Respond, BeginSend, Response
<1>4. Response(n) \in Messages /\ Response(n)[3] \in Nat
  <2>1. 1 \in 1..MaxRequests
    BY <1>2, ClientAssumption DEF ClientInv, TypeOK
  <2> QED BY <2>1, WordTypes DEF Messages, Response
<1>5. TypeOK'
  <2>1. act' \in [Sides -> {"none", "idle", "send", "header", "body", "failed",
                            "threw", "closed"}]
    BY <1>3 DEF ClientInv, TypeOK
  <2>2. out' \in [Sides -> Seq(Messages \X Nat)]
    BY <1>3, <1>4, WordTypes DEF ClientInv, TypeOK
  <2> QED BY <1>1, <2>1, <2>2 DEF ClientInv, TypeOK
<1>6. /\ act'["server"] = "send" /\ act'["client"] = act["client"]
      /\ out'["server"] = Words(Response(n)) /\ out'["client"] = out["client"]
  BY <1>3 DEF ClientInv, TypeOK, Sides
<1>7. Silent("client") /\ act["client"] # "body" /\ app # "connected" /\ app # "new"
  BY <1>1, <1>2 DEF ClientInv, Unanswered, BeforeConnect
<1>8. Coming("client", Response(n), 0)'
  <2>1. Rest(<<>>, Words(Response(n)), Response(n), 0)
    BY <1>4, RestBegins
  <2> QED BY <1>1, <1>6, <1>7, <2>1 DEF Silent, Coming, Peer
<1>9. ResponseComing'
  BY <1>1, <1>2, <1>8 DEF ResponseComing
<1>10. BeforeConnect' /\ InRequest' /\ ResponseRead' /\ Returned'
  BY <1>1, <1>6, <1>7 DEF ClientInv, BeforeConnect, InRequest, ResponseRead, Returned
<1>11. RequestComing' /\ RequestRead' /\ Unanswered'
  BY <1>6 DEF RequestComing, RequestRead, Unanswered
<1> QED BY <1>5, <1>9, <1>10, <1>11 DEF ClientInv

(* The Connection of s goes.                                               *)
LEMMA CloseStep ==
  ASSUME ClientInv, NEW s \in Sides, CloseSocket(s), UNCHANGED <<requests, result>>,
         app' # "new",
         app' # app => app' \in {"disconnected", "destroyed"} /\ app # "request",
         s = "client" => app' # "connected"
  PROVE  ClientInv'
<1>1. lost' \in BOOLEAN
  BY DEF ClientInv, TypeOK, CloseSocket
<1> QED BY <1>1, LeavingStep DEF CloseSocket

LEMMA SocketStepStep ==
  ASSUME ClientInv, NEW s \in Sides, SocketStep(s) PROVE ClientInv'
<1>1. UNCHANGED <<app, requests, result>>
  BY DEF SocketStep
<1>2. CASE EndOfStream(s) \/ Throw(s)
  <2>1. /\ act[s] \in {"header", "body", "send"}
        /\ \E x \in {"failed", "threw", "closed"} : act' = [act EXCEPT ![s] = x]
        /\ UNCHANGED <<out, got, need, wire, lost>>
    BY <1>2 DEF EndOfStream, Throw
  <2>2. lost' \in BOOLEAN
    BY <2>1 DEF ClientInv, TypeOK
  <2>3. app # "new" /\ (s = "client" => app # "connected")
    BY <2>1 DEF ClientInv, BeforeConnect, InRequest, Sides
  <2> QED BY <1>1, <2>1, <2>2, <2>3, LeavingStep
<1> QED BY <1>1, <1>2, WriteStep, WriteToClosedStep, ReadHeaderStep, ReadBodyStep
        DEF SocketStep

LEMMA CallerSteps ==
  ASSUME ClientInv,
         \/ ConnectFails \/ RequestFails \/ BeginDestroy \/ JoinThrows \/ IoStep
  PROVE  ClientInv'
<1>1. CASE ConnectFails
  <2>1. act["client"] = "none"
    BY <1>1 DEF ClientInv, BeforeConnect, ConnectFails
  <2> QED BY <1>1, <2>1, CallerStep DEF ConnectFails
<1>2. CASE RequestFails
  BY <1>2, CallerStep DEF RequestFails
<1>3. CASE BeginDestroy \/ JoinThrows
  <2>1. app # "request"
    BY <1>3 DEF BeginDestroy, JoinThrows, Idle
  <2>2. act["client"] \notin {"send", "header", "body"}
    BY <2>1 DEF ClientInv, InRequest
  <2> QED BY <1>3, <2>2, CallerStep DEF BeginDestroy, JoinThrows
<1>4. CASE IoStep
  BY <1>4, CallerStep DEF IoStep
<1> QED BY <1>1, <1>2, <1>3, <1>4

LEMMA EndDestroyStep == ASSUME ClientInv, EndDestroy PROVE ClientInv'
<1>1. /\ app = "destroying" /\ app' = "destroyed"
      /\ UNCHANGED <<requests, result>>
  BY DEF EndDestroy
<1>2. CASE UNCHANGED socket
  <2>1. act["client"] \notin {"send", "header", "body"}
    BY <1>1 DEF ClientInv, InRequest
  <2> QED BY <1>1, <1>2, <2>1, CallerStep
<1>3. CASE CloseSocket("client")
  BY <1>1, <1>3, CloseStep DEF Sides
<1> QED BY <1>2, <1>3 DEF EndDestroy

LEMMA DisconnectStep == ASSUME ClientInv, Disconnect PROVE ClientInv'
BY CloseStep DEF Disconnect, Sides

LEMMA EndServiceStep == ASSUME ClientInv, EndService PROVE ClientInv'
<1>1. app # "new"
  BY DEF ClientInv, BeforeConnect, EndService, Received, Sent
<1> QED BY <1>1, CloseStep DEF EndService, Sides

LEMMA ClientStepInv == ClientInv /\ [Next]_vars => ClientInv'
<1> SUFFICES ASSUME ClientInv, [Next]_vars PROVE ClientInv'
  OBVIOUS
<1>1. CASE UNCHANGED vars
  BY <1>1, CallerStep DEF vars, socket
<1>2. CASE ClientStep
  BY <1>2, AwaitResponseStep, ReturnResponseStep, CallerSteps, EndDestroyStep DEF ClientStep
<1>3. CASE Background
  BY <1>3, CallerSteps, RespondStep, EndServiceStep, ResetStep, SocketStepStep
  DEF Background, ServerStep
<1>4. CASE \/ Connect \/ ConnectFails \/ \E n \in Lengths : SendRequest(n)
           \/ Disconnect \/ BeginDestroy
  BY <1>4, ConnectStep, CallerSteps, SendRequestStep, DisconnectStep
<1> QED BY <1>1, <1>2, <1>3, <1>4 DEF Next

-----------------------------------------------------------------------------
(* What follows for any caller that goes by the rules.                     *)

LEMMA WholeMessages == ClientInv => WholeMessagesOnly
<1> SUFFICES ASSUME ClientInv PROVE WholeMessagesOnly
  OBVIOUS
<1>1. ASSUME result # <<>>
      PROVE  \E n \in 0..MaxBody : result = Words(<<"response", requests, n>>)
  BY <1>1 DEF ClientInv, Returned, Response
<1>2. ASSUME Received("server")
      PROVE  \E n \in 0..MaxBody : got["server"] = Words(<<"request", requests, n>>)
  BY <1>2, RequestWhole DEF Request
<1> QED BY <1>1, <1>2 DEF WholeMessagesOnly

(* What SendRequest returns is a whole response to its request, and what   *)
(* the request handler is given a whole request, wherever the connection   *)
(* breaks and however the words come in (WholeMessagesOnly).               *)
THEOREM MessagesComeWhole == Spec => []WholeMessagesOnly
<1>1. Spec => []ClientInv
  BY InitClient, ClientStepInv, PTL DEF Spec
<1> QED BY <1>1, WholeMessages, PTL

-----------------------------------------------------------------------------
(* The inductive invariant of the function Pplme's use of its Client.      *)

(* The words of the response that the server has made, if it has.          *)
ReplyWords ==
  {word \in Messages \X Nat : reply # <<>> /\ word[1][3] = reply[1]}

OnlyReply ==
  /\ reply # <<>> => reply[1] \in Lengths /\ reply[2] \in Contents(reply[1])
  /\ wire["client"] \in Seq(ReplyWords) /\ out["server"] \in Seq(ReplyWords)
  /\ got["client"] \in Seq(ReplyWords) /\ result \in Seq(ReplyWords)
  /\ requests = 0 \/ act["server"] \in {"none", "header", "body"} => reply = <<>>

(* Until it is read a response is on its way.                              *)
ReplyOnItsWay ==
  act["client"] \in {"send", "header"} /\ reply # <<>> => ~Silent("client")

(* All of it, unless there is a reset.                                     *)
WrittenOrLost ==
  /\ act["server"] \in {"none", "header", "body", "failed"} => out["server"] = <<>>
  /\ act["server"] = "threw" => lost
  /\ act["server"] = "closed" => lost \/ out["server"] = <<>>

(* There is no response, nor will there be one, that Pplme could take.     *)
NoAnswer == act["server"] \notin {"header", "body"} /\ ~Answered

FailsForAReason ==
  /\ act["client"] = "failed" => lost \/ NoAnswer
  /\ app = "unconnected" => act["server"] = "none"
  /\ app = "gone wrong" => act["client"] = "failed"

Finished ==
  /\ ret \in {"none", "true", "false"}
  /\ ret # "none" => app \in {"destroying", "destroyed", "terminated"}
  /\ ret = "true" =>
       /\ Answered
       /\ \E r \in Parsed(reply[2]) : printed = [n \in DOMAIN r |-> ToPerson(r[n])]
  /\ ret = "false" => lost \/ NoAnswer

CallInv == /\ requests \in 0..1
           /\ OnlyReply /\ ReplyOnItsWay /\ WrittenOrLost
           /\ FailsForAReason /\ Finished

PplmeInv == /\ caller \in {"example", "Pplme"}
            /\ caller = "example" => reply = <<>> /\ ret = "none" /\ printed = <<>>
            /\ caller = "Pplme" => CallInv

-----------------------------------------------------------------------------
(* What a step of Pplme, of its Client or of the server does.              *)

(* Once there is no answer to be had there never is.                       *)
LEMMA StaysUnanswered ==
  ASSUME lost => lost', reply' = reply,
         act["server"] \notin {"header", "body"} => act'["server"] \notin {"header", "body"}
  PROVE  (lost \/ NoAnswer) => (lost \/ NoAnswer)'
BY DEF NoAnswer, Answered

LEMMA NoReplyNoAnswer ==
  ASSUME reply = <<>> PROVE ~Answered
BY DEF Answered

(* A step that leaves the socket and the response alone.                   *)
LEMMA QuietStep ==
  ASSUME CallInv, UNCHANGED <<socket, requests, result, reply>>,
         FailsForAReason', Finished'
  PROVE  CallInv'
<1> USE DEF socket
<1>1. OnlyReply'
  BY DEF CallInv, OnlyReply, ReplyWords
<1>2. ReplyOnItsWay' /\ WrittenOrLost'
  BY DEF CallInv, ReplyOnItsWay, WrittenOrLost, Silent, Peer
<1> QED BY <1>1, <1>2 DEF CallInv

(* What is to be shown of a step that leaves Pplme's own variables alone.  *)
WordsKept ==
  /\ wire'["client"] \in Seq(ReplyWords) /\ out'["server"] \in Seq(ReplyWords)
  /\ got'["client"] \in Seq(ReplyWords) /\ result' \in Seq(ReplyWords)
  /\ ReplyOnItsWay' /\ WrittenOrLost'

Onward ==
  /\ lost => lost'
  /\ act'["server"] \in {"none", "header", "body"} =>
       act["server"] \in {"none", "header", "body"}
  /\ act["server"] \notin {"header", "body"} =>
       act'["server"] \notin {"header", "body"} \/ app = "new"
  /\ act'["client"] = "failed" =>
       app # "new" /\ (act["client"] = "failed" \/ lost \/ NoAnswer)

CallerOnward ==
  /\ requests' \in 0..1 /\ (requests' = 0 => requests = 0)
  /\ app' = "unconnected" => act'["server"] = "none"
  /\ app' = "gone wrong" => act'["client"] = "failed"
  /\ app \in {"destroying", "destroyed", "terminated"} =>
       app' \in {"destroying", "destroyed", "terminated"}

LEMMA OnwardStep ==
  ASSUME CallInv, UNCHANGED pplme, WordsKept, Onward, CallerOnward
  PROVE  CallInv'
<1> USE DEF pplme, WordsKept, Onward, CallerOnward
<1>1. OnlyReply'
  <2>1. ReplyWords' = ReplyWords
    BY DEF ReplyWords
  <2>2. reply' # <<>> => reply'[1] \in Lengths /\ reply'[2] \in Contents(reply'[1])
    BY DEF CallInv, OnlyReply
  <2>3. requests' = 0 \/ act'["server"] \in {"none", "header", "body"} => reply' = <<>>
    BY DEF CallInv, OnlyReply
  <2> QED BY <2>1, <2>2, <2>3 DEF OnlyReply
<1>2. app # "new" => ((lost \/ NoAnswer) => (lost \/ NoAnswer)')
  BY StaysUnanswered
<1>3. FailsForAReason'
  BY <1>2 DEF CallInv, FailsForAReason
<1>4. Finished'
  <2>1. ret' # "none" => app \in {"destroying", "destroyed", "terminated"}
    BY DEF CallInv, Finished
  <2>2. ret' = "false" => (lost \/ NoAnswer)'
    BY <1>2, <2>1 DEF CallInv, Finished
  <2>3. ret' = "true" =>
          /\ Answered'
          /\ \E r \in Parsed(reply'[2]) :
               printed' = [n \in DOMAIN r |-> ToPerson(r[n])]
    BY DEF CallInv, Finished, Answered
  <2> QED BY <2>1, <2>2, <2>3 DEF CallInv, Finished
<1> QED BY <1>1, <1>3, <1>4 DEF CallInv

(* The caller's part is trivial where only the socket changes.             *)
LEMMA CallerStays ==
  ASSUME ClientInv, CallInv, NEW s \in Sides, UNCHANGED <<app, requests>>,
         act[s] # "none", act[s] # "failed" \/ app = "destroying" \/ s = "server",
         act'[Peer(s)] = act[Peer(s)]
  PROVE  CallerOnward
<1>1. requests' \in 0..1 /\ (requests' = 0 => requests = 0)
  BY DEF CallInv
<1>2. CASE s = "client"
  <2>1. act["server"] = act'["server"]
    BY <1>2 DEF Peer
  <2> QED BY <1>1, <1>2, <2>1 DEF CallInv, FailsForAReason, CallerOnward
<1>3. CASE s = "server"
  <2>1. act["client"] = act'["client"]
    BY <1>3 DEF Peer
  <2> QED BY <1>1, <1>3, <2>1 DEF CallInv, FailsForAReason, CallerOnward
<1> QED BY <1>2, <1>3 DEF Sides

LEMMA WriteCall ==
  ASSUME ClientInv, CallInv, NEW s \in Sides, Write(s) \/ WriteToClosed(s),
         UNCHANGED <<result, reply>>
  PROVE  WordsKept /\ Onward
<1>1. /\ act' = act /\ got' = got /\ act[s] = "send" /\ out[s] # <<>> /\ ~lost
      /\ out' = [out EXCEPT ![s] = Tail(@)]
      /\ \/ /\ wire' = [wire EXCEPT ![Peer(s)] = Append(@, Head(out[s]))]
            /\ lost' = lost
         \/ wire' = wire /\ act[Peer(s)] = "closed"
  BY DEF Write, WriteToClosed
<1>2. Onward
  BY <1>1 DEF Onward, ClientInv, BeforeConnect
<1>3. CASE s = "client"
  <2>1. out'["server"] = out["server"] /\ wire'["client"] = wire["client"]
    BY <1>1, <1>3 DEF ClientInv, TypeOK, Peer, Sides
  <2>2. /\ wire'["client"] \in Seq(ReplyWords) /\ out'["server"] \in Seq(ReplyWords)
        /\ got'["client"] \in Seq(ReplyWords) /\ result' \in Seq(ReplyWords)
    BY <1>1, <2>1 DEF CallInv, OnlyReply
  <2>3. ReplyOnItsWay' /\ WrittenOrLost'
    <3>1. ReplyOnItsWay'
      BY <1>1, <1>3, <2>1 DEF CallInv, ReplyOnItsWay, Silent, Peer
    <3>2. WrittenOrLost
      BY DEF CallInv
    <3>3. out'["server"] = <<>> <=> out["server"] = <<>>
      BY <2>1
    <3> QED BY <1>1, <3>1, <3>2, <3>3 DEF WrittenOrLost
  <2> QED BY <1>2, <2>2, <2>3 DEF WordsKept
<1>4. CASE s = "server"
  <2>1. out'["server"] = Tail(out["server"])
    BY <1>1, <1>4 DEF ClientInv, TypeOK, Sides
  <2>2. out["server"] \in Seq(ReplyWords) /\ wire["client"] \in Seq(ReplyWords)
    BY DEF CallInv, OnlyReply
  <2>3. Head(out["server"]) \in ReplyWords /\ Tail(out["server"]) \in Seq(ReplyWords)
    BY <1>1, <1>4, <2>2, HeadTailProperties
  <2>4. /\ Append(wire["client"], Head(out["server"])) \in Seq(ReplyWords)
        /\ Append(wire["client"], Head(out["server"])) # <<>>
    BY <2>2, <2>3, AppendProperties
  <2>5. \/ wire'["client"] = Append(wire["client"], Head(out["server"]))
        \/ wire'["client"] = wire["client"] /\ act["client"] = "closed"
    BY <1>1, <1>4 DEF ClientInv, TypeOK, Peer, Sides
  <2>6. wire'["client"] \in Seq(ReplyWords)
    BY <2>2, <2>4, <2>5
  <2>7. ReplyOnItsWay'
    BY <1>1, <2>4, <2>5 DEF ReplyOnItsWay, Silent
  <2>8. WrittenOrLost'
    BY <1>1, <1>4 DEF WrittenOrLost
  <2>9. got'["client"] \in Seq(ReplyWords) /\ result' \in Seq(ReplyWords)
    BY <1>1 DEF CallInv, OnlyReply
  <2>10. out'["server"] \in Seq(ReplyWords)
    BY <2>1, <2>3
  <2> QED BY <1>2, <2>6, <2>7, <2>8, <2>9, <2>10 DEF WordsKept
<1> QED BY <1>2, <1>3, <1>4 DEF Sides

LEMMA ReadHeaderCall ==
  ASSUME ClientInv, CallInv, NEW s \in Sides, ReadHeader(s), UNCHANGED <<result, reply>>
  PROVE  WordsKept /\ Onward
<1>1. /\ act[s] = "header" /\ wire[s] # <<>>
      /\ wire' = [wire EXCEPT ![s] = Tail(@)]
      /\ UNCHANGED <<out, lost>>
  BY DEF ReadHeader
<1>2. \/ /\ act' = [act EXCEPT ![s] = "body"]
         /\ got' = [got EXCEPT ![s] = <<Head(wire[s])>>]
      \/ /\ act' = [act EXCEPT ![s] = IF lost THEN "threw" ELSE "failed"]
         /\ got' = got
         /\ \E n \in BodyLengths(Head(wire[s])) : ~(n <= MaxBody)
  BY DEF ReadHeader
<1>3. app # "new"
  BY <1>1 DEF ClientInv, BeforeConnect, Sides
<1>4. CASE s = "server"
  <2>1. /\ wire'["client"] = wire["client"] /\ got'["client"] = got["client"]
        /\ act'["client"] = act["client"]
        /\ act'["server"] = "body" \/ act'["server"] = IF lost THEN "threw" ELSE "failed"
        /\ out["server"] = <<>>
    BY <1>1, <1>2, <1>4 DEF ClientInv, TypeOK, Sides, Unanswered, Silent, Peer
  <2>2. /\ wire'["client"] \in Seq(ReplyWords) /\ out'["server"] \in Seq(ReplyWords)
        /\ got'["client"] \in Seq(ReplyWords) /\ result' \in Seq(ReplyWords)
    BY <1>1, <2>1 DEF CallInv, OnlyReply
  <2>3. ReplyOnItsWay'
    BY <1>1, <2>1 DEF CallInv, ReplyOnItsWay, Silent, Peer
  <2>4. WrittenOrLost'
    BY <1>1, <2>1 DEF WrittenOrLost
  <2>5. Onward
    BY <1>1, <1>3, <1>4, <2>1 DEF Onward
  <2> QED BY <2>2, <2>3, <2>4, <2>5 DEF WordsKept
<1>5. CASE s = "client"
  <2>1. /\ wire'["client"] = Tail(wire["client"])
        /\ act'["server"] = act["server"]
        /\ act'["client"] = "body" \/ act'["client"] = IF lost THEN "threw" ELSE "failed"
        /\ got'["client"] = <<Head(wire["client"])>> \/ got'["client"] = got["client"]
    BY <1>1, <1>2, <1>5 DEF ClientInv, TypeOK, Sides
  <2>2. wire["client"] \in Seq(ReplyWords) /\ wire["client"] # <<>>
    BY <1>1, <1>5 DEF CallInv, OnlyReply
  <2>3. /\ Head(wire["client"]) \in ReplyWords
        /\ Tail(wire["client"]) \in Seq(ReplyWords)
    BY <2>2, HeadTailProperties
  <2>4. <<Head(wire["client"])>> \in Seq(ReplyWords)
    BY <2>3
  <2>5. /\ wire'["client"] \in Seq(ReplyWords) /\ out'["server"] \in Seq(ReplyWords)
        /\ got'["client"] \in Seq(ReplyWords) /\ result' \in Seq(ReplyWords)
    BY <1>1, <2>1, <2>3, <2>4 DEF CallInv, OnlyReply
  <2>6. ReplyOnItsWay'
    BY <2>1 DEF ReplyOnItsWay
  <2>7. WrittenOrLost'
    BY <1>1, <2>1 DEF CallInv, WrittenOrLost
  <2>8. ASSUME act'["client"] = "failed" PROVE lost \/ NoAnswer
    <3>1. PICK n \in BodyLengths(Head(wire["client"])) : ~(n <= MaxBody)
      BY <1>2, <1>5, <2>1, <2>8 DEF ClientInv, TypeOK, Sides
    <3>2. ~Silent("client")
      BY <1>1, <1>5 DEF Silent
    <3>3. PICK k \in Lengths : Coming("client", Response(k), 0)
      BY <1>1, <1>5, <3>2 DEF ClientInv, ResponseComing
    <3>4. Response(k)[3] = k /\ k \in Nat
      BY WordTypes DEF Response
    <3>5. n = k
      BY <2>2, <3>1, <3>3, <3>4, HeaderRead DEF Coming
    <3>6. Head(wire["client"]) = <<Response(k), 0>>
      BY <2>2, <3>3, <3>4, RestRead DEF Coming
    <3>7. Head(wire["client"])[1][3] = k
      BY <3>4, <3>6
    <3>8. reply[1] = k
      BY <2>3, <3>7 DEF ReplyWords
    <3>9. ~Answered
      BY <3>1, <3>5, <3>8 DEF Answered
    <3>10. act["server"] \notin {"header", "body"}
      BY <3>2 DEF ClientInv, Unanswered
    <3> QED BY <3>9, <3>10 DEF NoAnswer
  <2>9. Onward
    BY <1>1, <1>3, <2>1, <2>8 DEF Onward
  <2> QED BY <2>5, <2>6, <2>7, <2>9 DEF WordsKept
<1> QED BY <1>4, <1>5 DEF Sides

LEMMA ReadBodyCall ==
  ASSUME ClientInv, CallInv, NEW s \in Sides, ReadBody(s), UNCHANGED <<result, reply>>
  PROVE  WordsKept /\ Onward
<1>1. /\ act[s] = "body" /\ wire[s] # <<>>
      /\ got' = [got EXCEPT ![s] = Append(@, Head(wire[s]))]
      /\ wire' = [wire EXCEPT ![s] = Tail(@)]
      /\ UNCHANGED <<act, out, lost>>
  BY DEF ReadBody
<1>2. Onward
  BY <1>1 DEF Onward, ClientInv, BeforeConnect
<1>3. WrittenOrLost'
  BY <1>1 DEF CallInv, WrittenOrLost
<1>4. CASE s = "server"
  <2>1. wire'["client"] = wire["client"] /\ got'["client"] = got["client"]
    BY <1>1, <1>4 DEF ClientInv, TypeOK, Sides
  <2>2. /\ wire'["client"] \in Seq(ReplyWords) /\ out'["server"] \in Seq(ReplyWords)
        /\ got'["client"] \in Seq(ReplyWords) /\ result' \in Seq(ReplyWords)
    BY <1>1, <2>1 DEF CallInv, OnlyReply
  <2>3. ReplyOnItsWay'
    BY <1>1, <2>1 DEF CallInv, ReplyOnItsWay, Silent, Peer
  <2> QED BY <1>2, <1>3, <2>2, <2>3 DEF WordsKept
<1>5. CASE s = "client"
  <2>1. /\ wire'["client"] = Tail(wire["client"])
        /\ got'["client"] = Append(got["client"], Head(wire["client"]))
    BY <1>1, <1>5 DEF ClientInv, TypeOK, Sides
  <2>2. /\ wire["client"] \in Seq(ReplyWords) /\ wire["client"] # <<>>
        /\ got["client"] \in Seq(ReplyWords)
    BY <1>1, <1>5 DEF CallInv, OnlyReply
  <2>3. /\ Head(wire["client"]) \in ReplyWords
        /\ Tail(wire["client"]) \in Seq(ReplyWords)
    BY <2>2, HeadTailProperties
  <2>4. Append(got["client"], Head(wire["client"])) \in Seq(ReplyWords)
    BY <2>2, <2>3, AppendProperties
  <2>5. /\ wire'["client"] \in Seq(ReplyWords) /\ out'["server"] \in Seq(ReplyWords)
        /\ got'["client"] \in Seq(ReplyWords) /\ result' \in Seq(ReplyWords)
    BY <1>1, <2>1, <2>3, <2>4 DEF CallInv, OnlyReply
  <2>6. ReplyOnItsWay'
    BY <1>1, <1>5 DEF ReplyOnItsWay
  <2> QED BY <1>2, <1>3, <2>5, <2>6 DEF WordsKept
<1> QED BY <1>4, <1>5 DEF Sides

(* A step that changes nothing but act[s] and lost.                        *)
LEMMA OutcomeCall ==
  ASSUME ClientInv, CallInv, NEW s \in Sides, NEW x, act' = [act EXCEPT ![s] = x],
         x \in {"failed", "threw", "closed"}, act[s] # "none",
         UNCHANGED <<out, got, wire, result, reply>>, lost => lost',
         s = "client" /\ x = "failed" => lost \/ NoAnswer,
         s = "server" /\ x = "failed" => out["server"] = <<>>,
         s = "server" /\ x = "threw" => lost',
         s = "server" /\ x = "closed" => lost' \/ out["server"] = <<>>
  PROVE  WordsKept /\ Onward
<1>1. app # "new"
  BY DEF ClientInv, BeforeConnect, Sides
<1>2. /\ wire'["client"] \in Seq(ReplyWords) /\ out'["server"] \in Seq(ReplyWords)
      /\ got'["client"] \in Seq(ReplyWords) /\ result' \in Seq(ReplyWords)
  BY DEF CallInv, OnlyReply
<1>3. CASE s = "client"
  <2>1. act'["client"] = x /\ act'["server"] = act["server"]
    BY <1>3 DEF ClientInv, TypeOK, Sides
  <2>2. ReplyOnItsWay'
    BY <2>1 DEF ReplyOnItsWay
  <2>3. WrittenOrLost'
    BY <2>1 DEF CallInv, WrittenOrLost
  <2>4. Onward
    BY <1>1, <1>3, <2>1 DEF Onward
  <2> QED BY <1>2, <2>2, <2>3, <2>4 DEF WordsKept
<1>4. CASE s = "server"
  <2>1. act'["server"] = x /\ act'["client"] = act["client"]
    BY <1>4 DEF ClientInv, TypeOK, Sides
  <2>2. ReplyOnItsWay'
    BY <2>1 DEF CallInv, ReplyOnItsWay, Silent, Peer
  <2>3. WrittenOrLost'
    BY <1>4, <2>1 DEF WrittenOrLost
  <2>4. Onward
    BY <1>1, <2>1 DEF Onward
  <2> QED BY <1>2, <2>2, <2>3, <2>4 DEF WordsKept
<1> QED BY <1>3, <1>4 DEF Sides

(* The server has closed and nothing is left of a response that Pplme      *)
(* could have taken: there was none.                                       *)
LEMMA EndOfStreamCall ==
  ASSUME ClientInv, CallInv, NEW s \in Sides, EndOfStream(s), UNCHANGED <<result, reply>>
  PROVE  WordsKept /\ Onward
<1>1. /\ act[s] \in {"header", "body"} /\ (act[s] = "body" => Len(got[s]) < need[s])
      /\ wire[s] = <<>> /\ act[Peer(s)] = "closed" /\ ~lost
      /\ act' = [act EXCEPT ![s] = "failed"]
      /\ UNCHANGED <<out, got, wire, lost>>
  BY DEF EndOfStream
<1>2. ASSUME s = "client" PROVE NoAnswer
  <2>1. act["server"] = "closed"
    BY <1>1, <1>2 DEF Peer
  <2>2. Silent("client")
    BY <1>1, <1>2, <2>1 DEF CallInv, WrittenOrLost, Silent, Peer
  <2>3. act["client"] = "header"
    <3> SUFFICES ASSUME act["client"] = "body" PROVE FALSE
      BY <1>1, <1>2
    <3>1. PICK n \in 0..MaxBody : Reading("client", Response(n))
      BY DEF ClientInv, ResponseRead
    <3>2. PICK g \in 1..(Response(n)[3] + 1) :
            got["client"] = Part(Response(n), 0, g) /\ Coming("client", Response(n), g)
      BY <3>1 DEF Reading
    <3>3. Response(n)[3] \in Nat /\ g \in Nat /\ 0 \in Nat
      BY DEF Response
    <3>4. g = Response(n)[3] + 1
      BY <2>2, <3>2, <3>3, RestEnds DEF Coming, Silent
    <3>5. Len(got["client"]) = g
      <4>1. Len(Part(Response(n), 0, g)) = g
        BY <3>3, PartIsSeq
      <4> QED BY <3>2, <4>1
    <3>6. need["client"] = g
      BY <3>1, <3>4 DEF Reading
    <3> QED BY <1>1, <1>2, <3>3, <3>5, <3>6
  <2>4. reply = <<>>
    BY <2>2, <2>3 DEF CallInv, ReplyOnItsWay
  <2> QED BY <2>1, <2>4, NoReplyNoAnswer DEF NoAnswer
<1>3. ASSUME s = "server" PROVE out["server"] = <<>>
  BY <1>1, <1>3 DEF ClientInv, Unanswered, Silent, Peer
<1> QED BY <1>1, <1>2, <1>3, OutcomeCall

LEMMA ThrowCall ==
  ASSUME ClientInv, CallInv, NEW s \in Sides, Throw(s), UNCHANGED <<result, reply>>
  PROVE  WordsKept /\ Onward
<1>1. /\ act[s] # "none" /\ lost
      /\ act' = [act EXCEPT ![s] = "threw"]
      /\ UNCHANGED <<out, got, wire, lost>>
  BY DEF Throw
<1> QED BY <1>1, OutcomeCall

LEMMA SocketCall ==
  ASSUME ClientInv, CallInv, NEW s \in Sides, SocketStep(s), UNCHANGED pplme
  PROVE  CallInv'
<1>1. UNCHANGED <<app, requests, result, reply>>
  BY DEF SocketStep, pplme
<1>2. WordsKept /\ Onward
  BY <1>1, WriteCall, ReadHeaderCall, ReadBodyCall, EndOfStreamCall, ThrowCall
  DEF SocketStep
<1>3. /\ act[s] \in {"send", "header", "body"}
      /\ act'[Peer(s)] = act[Peer(s)]
  BY DEF SocketStep, Write, WriteToClosed, ReadHeader, ReadBody, EndOfStream, Throw,
         ClientInv, TypeOK, Peer, Sides
<1>4. CallerOnward
  BY <1>1, <1>3, CallerStays
<1> QED BY <1>2, <1>4, OnwardStep

(* The steps of the Client and of the server that do no such thing.        *)
LEMMA ClientCall ==
  ASSUME ClientInv, CallInv, UNCHANGED pplme,
         ClientStep \/ EndService \/ IoStep \/ Reset
  PROVE  CallInv'
<1>1. CASE AwaitResponse
  <2>1. /\ act["client"] = "send" /\ app = "request"
        /\ act' = [act EXCEPT !["client"] = "header"]
        /\ UNCHANGED <<out, got, need, wire, lost, app, requests, result>>
    BY <1>1 DEF AwaitResponse, Sent
  <2>2. act'["client"] = "header" /\ act'["server"] = act["server"]
    BY <2>1 DEF ClientInv, TypeOK, Sides
  <2>3. WordsKept
    <3>1. ReplyOnItsWay'
      BY <2>1, <2>2 DEF CallInv, ReplyOnItsWay, Silent, Peer, pplme
    <3>2. WrittenOrLost'
      BY <2>1, <2>2 DEF CallInv, WrittenOrLost
    <3> QED BY <2>1, <3>1, <3>2 DEF CallInv, OnlyReply, WordsKept
  <2>4. Onward
    BY <2>1, <2>2 DEF Onward
  <2>5. CallerOnward
    BY <2>1, <2>2 DEF CallInv, CallerOnward
  <2> QED BY <2>3, <2>4, <2>5, OnwardStep
<1>2. CASE ReturnResponse
  <2>1. /\ act["client"] = "body" /\ app = "request"
        /\ app' = "connected" /\ result' = got["client"]
        /\ act' = [act EXCEPT !["client"] = "idle"]
        /\ UNCHANGED <<out, got, need, wire, lost, requests>>
    BY <1>2 DEF ReturnResponse, Received
  <2>2. act'["client"] = "idle" /\ act'["server"] = act["server"]
    BY <2>1 DEF ClientInv, TypeOK, Sides
  <2>3. WordsKept
    <3>1. ReplyOnItsWay'
      BY <2>2 DEF ReplyOnItsWay
    <3>2. WrittenOrLost'
      BY <2>1, <2>2 DEF CallInv, WrittenOrLost
    <3> QED BY <2>1, <3>1, <3>2 DEF CallInv, OnlyReply, WordsKept
  <2>4. Onward
    BY <2>1, <2>2 DEF Onward
  <2>5. CallerOnward
    BY <2>1, <2>2 DEF CallInv, CallerOnward
  <2> QED BY <2>3, <2>4, <2>5, OnwardStep
<1>3. CASE RequestFails \/ JoinThrows \/ IoStep
  <2>1. UNCHANGED <<socket, requests, result>>
    BY <1>3 DEF RequestFails, JoinThrows, IoStep
  <2>2. /\ app' = "gone wrong" => app = "gone wrong" \/ act["client"] = "failed"
        /\ app' = "unconnected" => app = "unconnected"
        /\ app \in {"destroying", "destroyed", "terminated"} =>
             app' \in {"destroying", "destroyed", "terminated"}
    BY <1>3 DEF RequestFails, JoinThrows, IoStep
  <2>3. FailsForAReason'
    BY <2>1, <2>2 DEF CallInv, FailsForAReason, NoAnswer, Answered, socket, pplme
  <2>4. Finished'
    BY <2>1, <2>2 DEF CallInv, Finished, NoAnswer, Answered, socket, pplme
  <2> QED BY <2>1, <2>3, <2>4, QuietStep DEF pplme
<1>4. CASE EndDestroy
  <2>1. /\ app = "destroying" /\ app' = "destroyed"
        /\ UNCHANGED <<requests, result>>
    BY <1>4 DEF EndDestroy
  <2>2. CASE UNCHANGED socket
    <3>1. FailsForAReason'
      BY <2>1, <2>2 DEF CallInv, FailsForAReason, NoAnswer, Answered, socket, pplme
    <3>2. Finished'
      BY <2>1, <2>2 DEF CallInv, Finished, NoAnswer, Answered, socket, pplme
    <3> QED BY <2>1, <2>2, <3>1, <3>2, QuietStep DEF pplme
  <2>3. CASE act["client"] \notin {"none", "closed"} /\ CloseSocket("client")
    <3>1. /\ act' = [act EXCEPT !["client"] = "closed"]
          /\ lost => lost'
          /\ UNCHANGED <<out, got, wire, result, reply>>
      BY <2>1, <2>3 DEF CloseSocket, pplme
    <3>2. "client" \in Sides
      BY DEF Sides
    <3>3. WordsKept /\ Onward
      BY <2>3, <3>1, <3>2, OutcomeCall
    <3>4. CallerOnward
      BY <2>1 DEF CallInv, CallerOnward
    <3> QED BY <3>3, <3>4, OnwardStep
  <2> QED BY <1>4, <2>2, <2>3 DEF EndDestroy
<1>5. CASE EndService
  <2>1. /\ act["server"] \in {"body", "send", "failed", "threw"}
        /\ act["server"] = "send" => out["server"] = <<>>
        /\ act' = [act EXCEPT !["server"] = "closed"]
        /\ lost => lost'
        /\ UNCHANGED <<out, got, wire, app, requests, result, reply>>
    BY <1>5 DEF EndService, CloseSocket, Received, Sent, pplme
  <2>2. lost' \/ out["server"] = <<>>
    BY <2>1 DEF CallInv, WrittenOrLost
  <2>3. "server" \in Sides
    BY DEF Sides
  <2>4. WordsKept /\ Onward
    BY <2>1, <2>2, <2>3, OutcomeCall
  <2>5. act'["client"] = act["client"]
    BY <2>1 DEF ClientInv, TypeOK, Sides
  <2>6. CallerOnward
    BY <2>1, <2>3, <2>5, CallerStays DEF Peer
  <2> QED BY <2>4, <2>6, OnwardStep
<1>6. CASE Reset
  <2>1. /\ act["client"] # "none" /\ lost' = TRUE
        /\ UNCHANGED <<act, out, got, wire, app, requests, result>>
    BY <1>6 DEF Reset
  <2>2. WordsKept
    <3>1. ReplyOnItsWay' /\ WrittenOrLost'
      BY <2>1 DEF CallInv, ReplyOnItsWay, WrittenOrLost, Silent, Peer, pplme
    <3> QED BY <2>1, <3>1 DEF CallInv, OnlyReply, WordsKept
  <2>3. Onward
    BY <2>1 DEF CallInv, FailsForAReason, ClientInv, BeforeConnect, Onward
  <2>4. CallerOnward
    BY <2>1 DEF CallInv, FailsForAReason, CallerOnward
  <2> QED BY <2>2, <2>3, <2>4, OnwardStep
<1> QED BY <1>1, <1>2, <1>3, <1>4, <1>5, <1>6 DEF ClientStep

LEMMA InitPplme == PplmeInit => PplmeInv
<1> SUFFICES ASSUME PplmeInit PROVE PplmeInv
  OBVIOUS
<1>1. <<>> \in Seq(ReplyWords)
  BY EmptySeq
<1>2. OnlyReply
  BY <1>1 DEF PplmeInit, Init, OnlyReply, Sides
<1>3. ReplyOnItsWay /\ WrittenOrLost /\ FailsForAReason /\ Finished
  BY DEF PplmeInit, Init, ReplyOnItsWay, WrittenOrLost, FailsForAReason, Finished, Sides
<1>4. requests \in 0..1
  BY DEF PplmeInit, Init
<1> QED BY <1>2, <1>3, <1>4 DEF PplmeInit, PplmeInv, CallInv

LEMMA ConnectCall ==
  ASSUME ClientInv, CallInv, PplmeConnect PROVE CallInv'
<1>1. /\ app = "new" /\ UNCHANGED pplme
      /\ UNCHANGED <<out, got, need, wire, lost, requests, result>>
  BY DEF PplmeConnect, Connect, ConnectFails, socket
<1>2. act["client"] = "none" /\ act["server"] = "none"
  BY <1>1 DEF ClientInv, BeforeConnect
<1>3. CASE app' = "unconnected" /\ UNCHANGED act
  <2>1. FailsForAReason'
    BY <1>2, <1>3 DEF FailsForAReason
  <2>2. Finished'
    BY <1>1 DEF CallInv, Finished, pplme
  <2> QED BY <1>1, <1>3, <2>1, <2>2, QuietStep DEF socket, pplme
<1>4. CASE app' = "connected" /\ act' = [client |-> "idle", server |-> "header"]
  <2>1. act'["client"] = "idle" /\ act'["server"] = "header"
    BY <1>4
  <2>2. out["server"] = <<>>
    BY <1>1 DEF ClientInv, BeforeConnect, Silent, Peer
  <2>3. WordsKept
    <3>1. ReplyOnItsWay' /\ WrittenOrLost'
      BY <1>1, <2>1, <2>2 DEF ReplyOnItsWay, WrittenOrLost
    <3> QED BY <1>1, <3>1 DEF CallInv, OnlyReply, WordsKept
  <2>4. Onward
    BY <1>1, <1>2, <2>1 DEF Onward
  <2>5. CallerOnward
    BY <1>1, <1>4 DEF CallInv, CallerOnward
  <2> QED BY <1>1, <2>3, <2>4, <2>5, OnwardStep
<1> QED BY <1>3, <1>4 DEF PplmeConnect, Connect, ConnectFails, socket

LEMMA RequestCall ==
  ASSUME ClientInv, CallInv, PplmeRequest PROVE CallInv'
<1>1. /\ requests = 0 /\ app = "connected" /\ UNCHANGED pplme
      /\ app' = "request" /\ requests' = requests + 1 /\ result' = <<>>
      /\ act' = [act EXCEPT !["client"] = "send"]
      /\ \E w : out' = [out EXCEPT !["client"] = w]
      /\ UNCHANGED <<got, need, wire, lost>>
  BY DEF PplmeRequest, SendRequest, BeginSend
<1>2. /\ act'["client"] = "send" /\ act'["server"] = act["server"]
      /\ out'["server"] = out["server"]
  BY <1>1 DEF ClientInv, TypeOK, Sides
<1>3. reply' = <<>>
  BY <1>1 DEF CallInv, OnlyReply, pplme
<1>4. WordsKept
  <2>1. <<>> \in Seq(ReplyWords)
    BY EmptySeq
  <2>2. ReplyOnItsWay'
    BY <1>3 DEF ReplyOnItsWay
  <2>3. WrittenOrLost'
    BY <1>1, <1>2 DEF CallInv, WrittenOrLost
  <2> QED BY <1>1, <1>2, <2>1, <2>2, <2>3 DEF CallInv, OnlyReply, WordsKept
<1>5. Onward
  BY <1>1, <1>2 DEF Onward
<1>6. CallerOnward
  BY <1>1 DEF CallerOnward
<1> QED BY <1>1, <1>4, <1>5, <1>6, OnwardStep

LEMMA FailsCall ==
  ASSUME ClientInv, CallInv, PplmeFails PROVE CallInv'
<1>1. /\ app \in {"unconnected", "gone wrong"} /\ app' = "destroying"
      /\ ret' = "false"
      /\ UNCHANGED <<socket, requests, result, reply>>
  BY DEF PplmeFails, BeginDestroy
<1>2. FailsForAReason'
  BY <1>1 DEF CallInv, FailsForAReason, NoAnswer, Answered, socket
<1>3. lost \/ NoAnswer
  <2>1. CASE app = "unconnected"
    <3>1. act["server"] = "none" /\ reply = <<>>
      BY <2>1 DEF CallInv, FailsForAReason, OnlyReply
    <3> QED BY <3>1, NoReplyNoAnswer DEF NoAnswer
  <2>2. CASE app = "gone wrong"
    BY <2>2 DEF CallInv, FailsForAReason
  <2> QED BY <1>1, <2>1, <2>2
<1>4. (lost \/ NoAnswer)'
  BY <1>1, <1>3 DEF NoAnswer, Answered, socket
<1>5. Finished'
  BY <1>1, <1>4 DEF Finished
<1> QED BY <1>1, <1>2, <1>5, QuietStep

LEMMA DecodesCall ==
  ASSUME ClientInv, CallInv, PplmeDecodes PROVE CallInv'
<1>1. /\ app = "connected" /\ result # <<>> /\ app' = "destroying"
      /\ UNCHANGED <<socket, requests, result, reply>>
  BY DEF PplmeDecodes, BeginDestroy
<1>2. FailsForAReason'
  BY <1>1 DEF CallInv, FailsForAReason, NoAnswer, Answered, socket
<1>3. reply # <<>> /\ reply[1] <= MaxBody
  <2>1. PICK n \in 0..MaxBody : result = Words(Response(n))
    BY <1>1 DEF ClientInv, Returned
  <2>2. Response(n)[3] = n
    BY DEF Response
  <2>3. Words(Response(n))[1] = <<Response(n), 1 - 1>>
    BY <2>2 DEF Words
  <2>4. result[1][1][3] = n
    BY <2>1, <2>2, <2>3
  <2>5. result \in Seq(ReplyWords)
    BY DEF CallInv, OnlyReply
  <2>6. Head(result) = result[1] /\ Head(result) \in ReplyWords
    BY <1>1, <2>5, HeadTailProperties
  <2>7. reply # <<>> /\ reply[1] = n
    BY <2>4, <2>6 DEF ReplyWords
  <2> QED BY <2>7
<1>4. act["server"] \notin {"header", "body"}
  BY <1>1 DEF ClientInv, Unanswered
<1>5. Finished'
  <2>1. CASE Parsed(reply[2]) = {} /\ ret' = "false"
    <3>1. NoAnswer'
      BY <1>1, <1>4, <2>1 DEF NoAnswer, Answered, socket
    <3> QED BY <1>1, <2>1, <3>1 DEF Finished
  <2>2. ASSUME NEW r \in Parsed(reply[2]), ret' = "true",
               printed' = [n \in DOMAIN r |-> ToPerson(r[n])]
        PROVE  Finished'
    <3>1. Answered'
      BY <1>1, <1>3, <2>2 DEF Answered
    <3> QED BY <1>1, <2>2, <3>1 DEF Finished
  <2> QED BY <2>1, <2>2 DEF PplmeDecodes
<1> QED BY <1>1, <1>2, <1>5, QuietStep

LEMMA UncaughtCall ==
  ASSUME ClientInv, CallInv, Uncaught PROVE CallInv'
<1>1. /\ app = "unwinding" /\ app' = "terminated"
      /\ UNCHANGED <<socket, requests, result, pplme>>
  BY DEF Uncaught
<1>2. FailsForAReason' /\ Finished'
  BY <1>1 DEF CallInv, FailsForAReason, Finished, NoAnswer, Answered, socket, pplme
<1> QED BY <1>1, <1>2, QuietStep DEF pplme

LEMMA AnswerCall ==
  ASSUME ClientInv, CallInv, Answer PROVE CallInv'
<1>1. /\ act["server"] = "body" /\ Received("server")
      /\ UNCHANGED <<got, need, wire, lost, app, requests, result, ret, printed>>
  BY DEF Answer, Respond, Received
<1>2. requests = 1 /\ got["server"][1][1][2] = 1
  BY <1>1, RequestWhole
<1>3. PICK k \in Lengths : /\ act' = [act EXCEPT !["server"] = "send"]
                           /\ out' = [out EXCEPT !["server"] = Words(Response(k))]
  BY <1>2 DEF Answer, Respond, BeginSend, Response
<1>4. /\ act'["server"] = "send" /\ act'["client"] = act["client"]
      /\ out'["server"] = Words(Response(k))
  BY <1>3 DEF ClientInv, TypeOK, Sides
<1>5. Response(k)[3] = k /\ k \in Nat
  BY WordTypes DEF Response
<1>6. Words(Response(k))[1] = <<Response(k), 1 - 1>>
  BY <1>5 DEF Words
<1>7. out'["server"][1][1][3] = k
  BY <1>4, <1>5, <1>6
<1>8. PICK content \in Contents(k) : reply' = <<k, content>>
  BY <1>7 DEF Answer
<1>9. /\ wire["client"] = <<>> /\ got["client"] = <<>> /\ result = <<>>
      /\ reply = <<>> /\ act["client"] # "body"
  BY <1>1 DEF ClientInv, CallInv, Unanswered, OnlyReply, Silent
<1>10. OnlyReply'
  <2>1. <<>> \in Seq(ReplyWords')
    BY EmptySeq
  <2>2. Response(k) \in Messages
    <3>1. 1 \in 1..MaxRequests
      BY <1>2, ClientAssumption DEF ClientInv, TypeOK
    <3> QED BY <3>1 DEF Messages, Response
  <2>3. \A i \in 1..(k + 1) : <<Response(k), i - 1>> \in ReplyWords'
    <3> SUFFICES ASSUME NEW i \in 1..(k + 1)
                 PROVE  <<Response(k), i - 1>> \in ReplyWords'
      OBVIOUS
    <3>1. i - 1 \in Nat
      BY <1>5
    <3>2. <<Response(k), i - 1>> \in Messages \X Nat
      BY <2>2, <3>1
    <3>3. reply' # <<>> /\ reply'[1] = k
      BY <1>8
    <3>4. <<Response(k), i - 1>>[1][3] = k
      BY <1>5
    <3> QED BY <3>2, <3>3, <3>4 DEF ReplyWords
  <2>4. Words(Response(k)) \in Seq(ReplyWords')
    BY <1>5, <2>3, IsASeq DEF Words
  <2>5. reply'[1] \in Lengths /\ reply'[2] \in Contents(reply'[1])
    BY <1>8
  <2> QED BY <1>1, <1>2, <1>4, <1>9, <2>1, <2>4, <2>5 DEF OnlyReply
<1>11. ReplyOnItsWay' /\ WrittenOrLost'
  <2>1. Words(Response(k)) # <<>>
    BY <1>5, RestBegins
  <2> QED BY <1>4, <2>1 DEF ReplyOnItsWay, WrittenOrLost, Silent, Peer
<1>12. ~NoAnswer /\ ~Answered
  BY <1>1, <1>9, NoReplyNoAnswer DEF NoAnswer
<1>13. FailsForAReason'
  BY <1>1, <1>4, <1>12 DEF CallInv, FailsForAReason
<1>14. Finished'
  BY <1>1, <1>12 DEF CallInv, Finished
<1> QED BY <1>1, <1>2, <1>10, <1>11, <1>13, <1>14 DEF CallInv

-----------------------------------------------------------------------------
(* The composition.                                                        *)

PplmecInv == ClientInv /\ PplmeInv

LEMMA PplmecStep == PplmecInv /\ [PplmeNext]_all => PplmecInv'
<1> SUFFICES ASSUME ClientInv, PplmeInv, [PplmeNext]_all PROVE ClientInv' /\ PplmeInv'
  BY DEF PplmecInv
<1>1. CASE UNCHANGED all
  <2>1. UNCHANGED vars /\ UNCHANGED pplme
    BY <1>1 DEF all
  <2>2. ClientInv'
    BY <2>1, ClientStepInv
  <2>3. CallInv => CallInv'
    <3> SUFFICES ASSUME CallInv PROVE CallInv'
      OBVIOUS
    <3>1. FailsForAReason' /\ Finished'
      BY <2>1 DEF CallInv, FailsForAReason, Finished, NoAnswer, Answered, vars, pplme
    <3> QED BY <2>1, <3>1, QuietStep DEF vars, socket, pplme
  <2> QED BY <2>1, <2>2, <2>3 DEF PplmeInv, pplme
<1>2. CASE caller = "example" /\ Next /\ UNCHANGED pplme
  <2>1. ClientInv'
    BY <1>2, ClientStepInv
  <2>2. PplmeInv'
    BY <1>2 DEF PplmeInv, pplme
  <2> QED BY <2>1, <2>2
<1>3. CASE /\ caller = "Pplme" /\ ~Over
           /\ \/ PplmeStep \/ Answer
              \/ /\ \/ ClientStep \/ EndService \/ IoStep \/ Reset
                    \/ \E s \in Sides : SocketStep(s)
                 /\ UNCHANGED pplme
  <2>1. CallInv /\ caller' = "Pplme"
    BY <1>3 DEF PplmeInv, PplmeStep, PplmeConnect, PplmeRequest, PplmeFails,
                PplmeDecodes, Uncaught, Answer, pplme
  <2>2. CASE PplmeStep
    <3>1. CASE PplmeConnect
      BY <3>1, <2>1, ConnectCall, ConnectStep, CallerSteps DEF PplmeConnect, PplmeInv
    <3>2. CASE PplmeRequest
      <4>1. 1 \in Lengths
        BY ClientAssumption DEF Lengths
      <4> QED BY <3>2, <4>1, <2>1, RequestCall, SendRequestStep DEF PplmeRequest, PplmeInv
    <3>3. CASE PplmeFails
      BY <3>3, <2>1, FailsCall, CallerSteps DEF PplmeFails, PplmeInv
    <3>4. CASE PplmeDecodes
      BY <3>4, <2>1, DecodesCall, CallerSteps DEF PplmeDecodes, PplmeInv
    <3>5. CASE Uncaught
      <4>1. ClientInv'
        <5>1. act["client"] \notin {"send", "header", "body"}
          BY <3>5 DEF ClientInv, InRequest, Uncaught
        <5> QED BY <3>5, <5>1, CallerStep DEF Uncaught
      <4> QED BY <3>5, <4>1, <2>1, UncaughtCall DEF PplmeInv
    <3> QED BY <2>2, <3>1, <3>2, <3>3, <3>4, <3>5 DEF PplmeStep
  <2>3. CASE Answer
    BY <2>3, <2>1, AnswerCall, RespondStep DEF Answer, PplmeInv
  <2>4. CASE /\ \/ ClientStep \/ EndService \/ IoStep \/ Reset
                \/ \E s \in Sides : SocketStep(s)
             /\ UNCHANGED pplme
    <3>1. CallInv'
      BY <2>4, <2>1, ClientCall, SocketCall
    <3>2. ClientInv'
      <4>1. [Next]_vars
        BY <1>3, <2>4 DEF Next, Background, ServerStep
      <4> QED BY <4>1, ClientStepInv
    <3> QED BY <3>1, <3>2, <2>1 DEF PplmeInv
  <2> QED BY <1>3, <2>2, <2>3, <2>4
<1> QED BY <1>1, <1>2, <1>3 DEF PplmeNext

LEMMA PplmecInvariant == PplmeSpec => []PplmecInv
<1>1. PplmeInit => PplmecInv
  BY InitClient, InitPplme DEF PplmeInit, PplmecInv
<1> QED BY <1>1, PplmecStep, PTL DEF PplmeSpec

(* The same with the function Pplme for a caller.                          *)
THEOREM MessagesComeWholeToPplme == PplmeSpec => []WholeMessagesOnly
<1>1. PplmecInv => WholeMessagesOnly
  BY WholeMessages DEF PplmecInv
<1> QED BY <1>1, PplmecInvariant, PTL

(* Pplme returns true if and only if the server has made a response that a *)
(* receiver takes and can parse, and the connection has held.              *)
THEOREM ResultIsHonest == PplmeSpec => []TrueIffAnswered
<1>1. PplmecInv => TrueIffAnswered
  BY DEF PplmecInv, PplmeInv, CallInv, Finished, NoAnswer, TrueIffAnswered
<1> QED BY <1>1, PplmecInvariant, PTL

(* The people that Pplme prints are those whom the server has found.       *)
THEOREM PrintsTheFound == PplmeSpec => []PrintsWhatWasFound
<1>1. PplmecInv => PrintsWhatWasFound
  <2> SUFFICES ASSUME PplmecInv, ret = "true", NEW response \in reply[2]
               PROVE  /\ DOMAIN printed = DOMAIN response
                      /\ \A n \in DOMAIN response :
                           /\ \A p \in printed[n] : response[n] = FromPerson(p)
                           /\ \A p \in Found : response[n] = FromPerson(p) => printed[n] = {p}
    BY DEF PrintsWhatWasFound
  <2>1. OnlyReply /\ Finished
    BY DEF PplmecInv, PplmeInv, CallInv
  <2>2. PICK r \in Parsed(reply[2]) : printed = [n \in DOMAIN r |-> ToPerson(r[n])]
    BY <2>1 DEF Finished
  <2>3. reply # <<>> /\ reply[1] \in Nat /\ reply[2] \in Contents(reply[1])
    BY <2>1, WordTypes DEF Finished, Answered, OnlyReply
  <2>4. PICK q \in [1..reply[1] -> {FromPerson(p) : p \in Found} \cup Strange] :
          reply[2] = {q}
    BY <2>3 DEF Contents
  <2>5. r = response /\ response = q
    BY <2>2, <2>4 DEF Parsed
  <2>6. /\ printed = [n \in DOMAIN response |-> ToPerson(response[n])]
        /\ response \in [1..reply[1] -> {FromPerson(p) : p \in Found} \cup Strange]
    BY <2>2, <2>4, <2>5
  <2>7. ASSUME NEW p \in Found PROVE ToPerson(FromPerson(p)) = {p}
    <3>1. p \in People({p.name}, {p.location_of_home.latitude,
                                  p.location_of_home.longitude})
      BY PplmecAssumption
    <3> QED BY <3>1, PersonRoundTrip
  <2>8. ASSUME NEW n \in DOMAIN response, NEW p \in printed[n]
        PROVE  response[n] = FromPerson(p)
    <3>1. p \in ToPerson(response[n])
      BY <2>6, <2>8
    <3>2. CASE response[n] \in Strange
      BY <3>1, <3>2, PplmecAssumption, MessageRoundTrip
    <3>3. ASSUME NEW o \in Found, response[n] = FromPerson(o)
          PROVE  response[n] = FromPerson(p)
      BY <3>1, <3>3, <2>7
    <3> QED BY <2>6, <3>2, <3>3
  <2>9. ASSUME NEW n \in DOMAIN response, NEW p \in Found, response[n] = FromPerson(p)
        PROVE  printed[n] = {p}
    BY <2>6, <2>7, <2>9
  <2> QED BY <2>6, <2>8, <2>9
<1> QED BY <1>1, PplmecInvariant, PTL
=============================================================================
