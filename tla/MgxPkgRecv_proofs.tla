-------------------------- MODULE MgxPkgRecv_proofs --------------------------
(***************************************************************************)
(* Proofs for MgxPkgRecv, for every header size, size limit, stream and    *)
(* fragmentation: recv never writes outside a buffer, no buffer leaks, and *)
(* what is handed over is whole packages in order.  The inductive          *)
(* invariant says where the bytes in the buffers come from: off bytes of   *)
(* the package that begins at position Begin have been received.           *)
(*                                                                         *)
(* That nothing is missing either rests on the parse of the whole stream:  *)
(* what was handed over and the parse from Begin on is the parse from the  *)
(* start.  The parse is a recursive function; that it satisfies its        *)
(* equation is proved by an induction over positions.                      *)
(***************************************************************************)
EXTENDS MgxPkgRecv, WellFoundedInduction, TLAPS

\* Where in the stream the package being received begins.
Begin == pos - off

HeaderPart ==
    InHeader =>
        /\ off + rest = HdrSize
        /\ msize = 0
        /\ \A j \in 0..off - 1 : hbuf[j] = Begin + j
        /\ stat = "PKG_HDR_START" => off = 0

BodyPart ==
    ~InHeader =>
        /\ off + rest = msize
        /\ off >= HdrSize
        /\ Begin \in DOMAIN sizeAt
        /\ msize = sizeAt[Begin] /\ ~WrongPackage(msize)
        /\ \A j \in 0..off - 1 : mdata[j] = Begin + j

BehindDelivered ==
    /\ Begin \in Nat
    /\ \A i \in 1..Len(delivered) :
          delivered[i][0] + sizeAt[delivered[i][0]] <= Begin

IInv ==
    /\ TypeOK
    /\ NoLeak
    /\ connected => HeaderPart /\ BodyPart /\ BehindDelivered
    /\ ~connected => msize = 0 /\ pos = 0 /\ delivered = <<>>
    /\ DeliveredWhole


-----------------------------------------------------------------------------

LEMMA InitIInv == Init => IInv
BY SizeAssumption, StreamAssumption
   DEF Init, IInv, TypeOK, NoLeak, HeaderPart, BodyPart, BehindDelivered, DeliveredWhole,
       InitialRecv, InHeader, Begin, Stream, Buffer, Fresh, Byte

\* Facts about the constants in the form the provers take.
LEMMA ConstantFacts ==
    /\ HdrSize \in Nat /\ HdrSize > 0 /\ HdrBufSize \in Nat /\ HdrSize <= HdrBufSize
    /\ PkgMaxSize \in Nat /\ PkgSlack \in Nat
    /\ StreamLen \in Nat /\ HdrSize <= StreamLen
    /\ \A x \in Sizes : x \in Nat
    /\ 0 \in Sizes
BY SizeAssumption, StreamAssumption

\* What recv stores stays a buffer of stream bytes.
LEMMA StoreType ==
    ASSUME pos \in Nat, off \in Nat, StreamLen \in Nat, NEW k \in Nat, NEW b \in Buffer(k),
           NEW n \in Nat, pos + n <= StreamLen
    PROVE  Store(b, n) \in Buffer(k)
BY DEF Store, Buffer, Byte

\* Bytes that continue the run in a buffer: the run grows by n.
LEMMA StoreRun ==
    ASSUME pos \in Nat, off \in Nat, NEW k \in Nat, NEW b \in Buffer(k),
           NEW n \in Nat, off + n <= k,
           \A j \in 0..off - 1 : b[j] = pos - off + j
    PROVE  \A j \in 0..off + n - 1 : Store(b, n)[j] = pos - off + j
BY DEF Store, Buffer

\* A package that begins where the last ones end may be appended.
LEMMA AppendPackage ==
    ASSUME sizeAt \in Stream, connected, DeliveredWhole, BehindDelivered,
           delivered \in Seq(UNION {Buffer(n) : n \in 0..PkgMaxSize}),
           Begin \in DOMAIN sizeAt, ~WrongPackage(sizeAt[Begin]),
           Begin + sizeAt[Begin] <= StreamLen,
           sizeAt' = sizeAt, connected' = connected,
           delivered' = Append(delivered, [j \in 0..sizeAt[Begin] - 1 |-> Begin + j])
    PROVE  /\ DeliveredWhole'
           /\ \A i \in 1..Len(delivered') :
                 delivered'[i][0] + sizeAt[delivered'[i][0]] <= Begin + sizeAt[Begin]
           /\ delivered' \in Seq(UNION {Buffer(n) : n \in 0..PkgMaxSize})
<1> DEFINE pkg == [j \in 0..sizeAt[Begin] - 1 |-> Begin + j]
           last == Len(delivered) + 1
           P == UNION {Buffer(n) : n \in 0..PkgMaxSize}
<1>1. DOMAIN sizeAt = 0..StreamLen - HdrSize
  BY DEF Stream
<1>2. Begin \in Nat /\ sizeAt[Begin] \in Nat
  <2>1. Begin \in 0..StreamLen - HdrSize
    BY <1>1
  <2>2. sizeAt[Begin] \in Sizes
    BY <2>1 DEF Stream
  <2>3. QED
    BY <2>1, <2>2, ConstantFacts
<1>3. sizeAt[Begin] >= HdrSize /\ sizeAt[Begin] <= PkgMaxSize
  BY <1>2, ConstantFacts DEF WrongPackage
<1>4. pkg \in Buffer(sizeAt[Begin])
  BY <1>2, ConstantFacts DEF Buffer, Byte
<1>5. pkg \in P
  <2>1. sizeAt[Begin] \in 0..PkgMaxSize
    BY <1>2, <1>3, ConstantFacts
  <2>2. QED
    BY <2>1, <1>4
<1>6. delivered' \in Seq(P)
  <2> HIDE DEF P, pkg
  <2>1. delivered' = Append(delivered, pkg)
    BY DEF pkg
  <2>2. delivered \in Seq(P)
    BY DEF P
  <2>3. QED
    BY <2>1, <2>2, <1>5
<1>7. /\ Len(delivered) \in Nat /\ Len(delivered') = last
      /\ delivered'[last] = pkg
      /\ \A i \in 1..Len(delivered) : delivered'[i] = delivered[i]
  <2> HIDE DEF P, pkg
  <2>1. delivered' = Append(delivered, pkg)
    BY DEF pkg
  <2>2. delivered \in Seq(P)
    BY DEF P
  <2>3. QED
    BY <2>1, <2>2, <1>5
<1>8. pkg[0] = Begin
  BY <1>2, <1>3, ConstantFacts
<1>9. ASSUME NEW i \in 1..Len(delivered')
      PROVE  i = last \/ (i \in 1..Len(delivered) /\ delivered'[i] = delivered[i])
  BY <1>7
<1> HIDE DEF P, pkg, last
<1>10. ASSUME NEW i \in 1..Len(delivered')
       PROVE  /\ delivered'[i][0] \in DOMAIN sizeAt
              /\ ~WrongPackage(sizeAt[delivered'[i][0]])
              /\ delivered'[i] = [j \in 0..sizeAt[delivered'[i][0]] - 1 |-> delivered'[i][0] + j]
  <2>1. CASE i = last
    <3>1. delivered'[i] = pkg /\ delivered'[i][0] = Begin
      BY <2>1, <1>7, <1>8
    <3>2. QED
      BY <3>1 DEF pkg
  <2>2. CASE i \in 1..Len(delivered) /\ delivered'[i] = delivered[i]
    BY <2>2 DEF DeliveredWhole
  <2>3. QED
    BY <2>1, <2>2, <1>9
<1>11. ASSUME NEW i \in 1..Len(delivered), NEW k \in 1..Len(delivered'), i < k
       PROVE  delivered'[i][0] + sizeAt[delivered'[i][0]] <= delivered'[k][0]
  <2>1. CASE k = last
    BY <2>1, <1>7, <1>8 DEF BehindDelivered
  <2>2. CASE k \in 1..Len(delivered) /\ delivered'[k] = delivered[k]
    BY <2>2, <1>7, <1>11 DEF DeliveredWhole
  <2>3. QED
    BY <2>1, <2>2, <1>9
<1>12. ASSUME NEW i \in 1..Len(delivered'), NEW k \in 1..Len(delivered'), i < k
       PROVE  delivered'[i][0] + sizeAt[delivered'[i][0]] <= delivered'[k][0]
  <2>1. i \in 1..Len(delivered)
    BY <1>12, <1>7 DEF last
  <2>2. QED
    BY <2>1, <1>11, <1>12
<1>13. DeliveredWhole'
  <2>1. \A i \in 1..Len(delivered') :
           /\ delivered'[i][0] \in DOMAIN sizeAt
           /\ ~WrongPackage(sizeAt[delivered'[i][0]])
           /\ delivered'[i] = [j \in 0..sizeAt[delivered'[i][0]] - 1 |-> delivered'[i][0] + j]
    BY <1>10
  <2>2. \A i, k \in 1..Len(delivered') :
           i < k => delivered'[i][0] + sizeAt[delivered'[i][0]] <= delivered'[k][0]
    BY <1>12
  <2>3. QED
    BY <2>1, <2>2 DEF DeliveredWhole, WrongPackage
<1>14. ASSUME NEW i \in 1..Len(delivered')
       PROVE  delivered'[i][0] + sizeAt[delivered'[i][0]] <= Begin + sizeAt[Begin]
  <2>1. CASE i = last
    <3>1. delivered'[i][0] = Begin
      BY <2>1, <1>7, <1>8
    <3>2. QED
      BY <3>1, <1>2
  <2>2. CASE i \in 1..Len(delivered) /\ delivered'[i] = delivered[i]
    <3>1. delivered[i][0] \in Nat /\ sizeAt[delivered[i][0]] \in Nat
      <4>1. delivered[i][0] \in DOMAIN sizeAt
        BY <2>2 DEF DeliveredWhole
      <4>2. delivered[i][0] \in 0..StreamLen - HdrSize
        BY <4>1, <1>1
      <4>3. sizeAt[delivered[i][0]] \in Sizes
        BY <4>2 DEF Stream
      <4>4. QED
        BY <4>2, <4>3, ConstantFacts
    <3>2. QED
      BY <2>2, <3>1, <1>2, SMTT(30) DEF BehindDelivered
  <2>3. QED
    BY <2>1, <2>2, <1>9
<1>15. QED
  BY <1>6, <1>13, <1>14 DEF P

\* Nothing is handed over: what was stays in order.
LEMMA SameDelivered ==
    ASSUME DeliveredWhole, connected, delivered' = delivered, sizeAt' = sizeAt
    PROVE  DeliveredWhole'
BY DEF DeliveredWhole, WrongPackage

\* A piece of a header arrives.
LEMMA RecvHeaderStep ==
    ASSUME IInv, NEW n \in 1..StreamLen, RecvHeader(n)
    PROVE  IInv'
<1> USE ConstantFacts
<1>1. /\ TypeOK /\ NoLeak /\ connected /\ InHeader /\ HeaderPart /\ BehindDelivered
      /\ DeliveredWhole /\ connected' /\ sizeAt' = sizeAt
  BY DEF RecvHeader, IInv
<1>2. /\ n \in Nat /\ pos \in Nat /\ off \in Nat /\ rest \in Nat /\ pos' = pos + n
      /\ pos' \in 0..StreamLen /\ pos + n <= StreamLen /\ n <= rest /\ off + rest = HdrSize
      /\ msize = 0
  BY <1>1 DEF RecvHeader, TypeOK, HeaderPart
<1>3. hbuf' = Store(hbuf, n) /\ hbuf' \in Buffer(HdrBufSize)
  BY <1>1, <1>2, StoreType DEF RecvHeader, TypeOK
<1>4. \A j \in 0..off + n - 1 : hbuf'[j] = Begin + j
  BY <1>1, <1>2, <1>3, StoreRun, SMTT(30) DEF TypeOK, HeaderPart, Begin
<1>5. Begin \in Nat /\ live = 0
  BY <1>1, <1>2 DEF BehindDelivered, NoLeak
<1> DEFINE whole == n = (IF stat = "PKG_HDR_START" THEN HdrSize ELSE rest)
<1>6. CASE ~whole
  <2>1. /\ stat' = "PKG_HDR_RECEIVING" /\ off' = off + n /\ rest' = rest - n
        /\ UNCHANGED <<msize, mdata, live, delivered>>
    BY <1>6 DEF RecvHeader
  <2>2. n < rest
    BY <1>1, <1>2, <1>6 DEF HeaderPart, InHeader
  <2>3. Begin' = Begin
    BY <2>1, <1>2 DEF Begin
  <2>4. TypeOK'
    BY <2>1, <2>2, <1>1, <1>2, <1>3 DEF TypeOK
  <2>5. HeaderPart' /\ BodyPart'
    BY <2>1, <2>2, <2>3, <1>2, <1>4 DEF HeaderPart, BodyPart, InHeader
  <2>6. BehindDelivered' /\ NoLeak'
    BY <2>1, <2>3, <1>1 DEF BehindDelivered, NoLeak
  <2>7. DeliveredWhole'
    BY <2>1, <1>1, SameDelivered
  <2>8. QED
    BY <2>4, <2>5, <2>6, <2>7, <1>1 DEF IInv
<1>7. CASE whole
  <2>1. n = rest /\ off + n = HdrSize /\ pos' = Begin + HdrSize
    BY <1>1, <1>2, <1>7 DEF HeaderPart, Begin
  <2>2. HeaderRejected(hbuf') \/ HeaderOnly(hbuf') \/ HeaderWithBody(hbuf')
    BY <1>7 DEF RecvHeader
  <2>3. hbuf'[0] = Begin /\ \A j \in 0..HdrSize - 1 : hbuf'[j] = Begin + j
    <3>1. off + n - 1 = HdrSize - 1
      BY <2>1, <1>2
    <3>2. \A j \in 0..HdrSize - 1 : hbuf'[j] = Begin + j
      BY <3>1, <1>4
    <3>3. QED
      BY <3>2, <1>5
  <2>4. DOMAIN sizeAt = 0..StreamLen - HdrSize /\ Begin \in DOMAIN sizeAt
    BY <2>1, <1>1, <1>2, <1>5 DEF TypeOK, Stream
  <2>5. AnnouncedSize(hbuf') = sizeAt[Begin] /\ sizeAt[Begin] \in Nat
    BY <2>3, <2>4, <1>1 DEF AnnouncedSize, TypeOK, Stream
  <2>6. \A i \in 1..Len(delivered) : delivered[i][0] + sizeAt[delivered[i][0]] <= Begin
    BY <1>1 DEF BehindDelivered
  <2>7. CASE HeaderRejected(hbuf')
    <3>1. /\ stat' = "PKG_HDR_START" /\ off' = 0 /\ rest' = HdrSize
          /\ UNCHANGED <<msize, mdata, live, delivered>>
      BY <2>7 DEF HeaderRejected, RestoreInitialState
    <3>2. Begin' = Begin + HdrSize
      BY <3>1, <2>1, <1>5 DEF Begin
    <3>3. TypeOK'
      BY <3>1, <1>1, <1>2, <1>3 DEF TypeOK
    <3>4. HeaderPart' /\ BodyPart' /\ NoLeak'
      BY <3>1, <1>1, <1>2 DEF HeaderPart, BodyPart, InHeader, NoLeak
    <3>5. BehindDelivered'
      <4>1. ASSUME NEW i \in 1..Len(delivered)
            PROVE  delivered[i][0] + sizeAt[delivered[i][0]] <= Begin'
        <5>1. delivered[i][0] \in 0..StreamLen - HdrSize
          BY <1>1, <2>4 DEF DeliveredWhole
        <5>2. sizeAt[delivered[i][0]] \in Nat
          BY <5>1, <1>1 DEF TypeOK, Stream
        <5>3. QED
          BY <5>1, <5>2, <2>6, <3>2, <1>5
      <4>2. QED
        BY <4>1, <3>1, <3>2, <1>1, <1>5 DEF BehindDelivered
    <3>6. DeliveredWhole'
      BY <3>1, <1>1, SameDelivered
    <3>7. QED
      BY <3>3, <3>4, <3>5, <3>6, <1>1 DEF IInv
  <2>8. CASE HeaderOnly(hbuf')
    <3>1. /\ stat' = "PKG_HDR_START" /\ off' = 0 /\ rest' = HdrSize
          /\ UNCHANGED <<msize, mdata, live>>
          /\ sizeAt[Begin] = HdrSize /\ ~WrongPackage(sizeAt[Begin])
      BY <2>8, <2>5 DEF HeaderOnly, RestoreInitialState
    <3>2. Begin' = Begin + HdrSize
      BY <3>1, <2>1, <1>5 DEF Begin
    <3>3. \A j \in 0..HdrSize - 1 : hbuf'[j] = Begin + j
      BY <2>3
    <3>4. delivered' = Append(delivered, [j \in 0..sizeAt[Begin] - 1 |-> Begin + j])
      <4>1. [j \in 0..HdrSize - 1 |-> hbuf'[j]] = [j \in 0..HdrSize - 1 |-> Begin + j]
        BY <3>3
      <4>2. QED
        BY <4>1, <2>8, <3>1 DEF HeaderOnly
    <3>5. /\ DeliveredWhole'
          /\ \A i \in 1..Len(delivered') :
                delivered'[i][0] + sizeAt[delivered'[i][0]] <= Begin + sizeAt[Begin]
          /\ delivered' \in Seq(UNION {Buffer(k) : k \in 0..PkgMaxSize})
      <4>1. Begin + sizeAt[Begin] <= StreamLen
        BY <3>1, <2>1, <1>2
      <4>2. QED
        BY <3>1, <3>4, <4>1, <2>4, <1>1, AppendPackage DEF TypeOK
    <3>6. TypeOK'
      BY <3>1, <3>5, <1>1, <1>2, <1>3 DEF TypeOK
    <3>7. HeaderPart' /\ BodyPart' /\ NoLeak'
      BY <3>1, <1>1, <1>2 DEF HeaderPart, BodyPart, InHeader, NoLeak
    <3>8. BehindDelivered'
      BY <3>1, <3>2, <3>5, <1>1, <1>5 DEF BehindDelivered
    <3>9. QED
      BY <3>5, <3>6, <3>7, <3>8, <1>1 DEF IInv
  <2>9. CASE HeaderWithBody(hbuf')
    <3> DEFINE size == sizeAt[Begin]
    <3>1. /\ stat' = "PKG_BODY_START" /\ off' = HdrSize /\ rest' = size - HdrSize
          /\ msize' = size /\ live' = live + 1 /\ delivered' = delivered
          /\ mdata' = [i \in 0..size - 1 |-> IF i < HdrSize THEN hbuf'[i] ELSE StreamLen]
          /\ size # HdrSize /\ ~WrongPackage(size)
      BY <2>9, <2>5 DEF HeaderWithBody
    <3>2. size \in Nat /\ size > HdrSize
      BY <3>1, <2>5 DEF WrongPackage
    <3> HIDE DEF size
    <3>3. Begin' = Begin
      BY <3>1, <2>1, <1>5 DEF Begin
    <3>4. \A j \in 0..HdrSize - 1 : hbuf'[j] = Begin + j
      BY <2>3
    <3>5. mdata' \in Buffer(size)
      BY <3>1, <3>2, <1>3 DEF Buffer, Byte
    <3>6. TypeOK'
      <4>1. off' \in Nat /\ rest' \in Nat \ {0}
        BY <3>1, <3>2, <1>2
      <4>2. msize' \in Nat /\ mdata' \in Buffer(msize')
        BY <3>1, <3>2, <3>5
      <4>3. live' \in Int
        BY <3>1, <1>1 DEF TypeOK
      <4>4. stat' = "PKG_BODY_START" /\ delivered' = delivered
        BY <3>1
      <4>5. pos' \in 0..StreamLen /\ hbuf' \in Buffer(HdrBufSize)
        BY <1>2, <1>3
      <4>6. QED
        BY <4>1, <4>2, <4>3, <4>4, <4>5, <1>1 DEF TypeOK
    <3>7. \A j \in 0..HdrSize - 1 : mdata'[j] = Begin + j
      BY <3>1, <3>2, <3>4
    <3>8. HeaderPart' /\ NoLeak'
      BY <3>1, <3>2, <1>5 DEF HeaderPart, InHeader, NoLeak
    <3>9. BodyPart'
      <4>1. off' + rest' = msize' /\ off' >= HdrSize /\ ~WrongPackage(msize)'
        BY <3>1, <3>2 DEF WrongPackage
      <4>2. Begin' \in DOMAIN sizeAt' /\ msize' = sizeAt'[Begin']
        BY <3>1, <3>3, <2>4, <1>1 DEF size
      <4>3. \A j \in 0..off' - 1 : mdata'[j] = Begin' + j
        BY <3>1, <3>3, <3>7
      <4>4. QED
        BY <4>1, <4>2, <4>3 DEF BodyPart
    <3>10. BehindDelivered'
      BY <3>1, <3>3, <1>1 DEF BehindDelivered
    <3>11. DeliveredWhole'
      BY <3>1, <1>1, SameDelivered
    <3>12. QED
      BY <3>6, <3>8, <3>9, <3>10, <3>11, <1>1 DEF IInv
  <2>10. QED
    BY <2>2, <2>7, <2>8, <2>9
<1>8. QED
  BY <1>6, <1>7

\* A piece of a body arrives.
LEMMA RecvBodyStep ==
    ASSUME IInv, NEW n \in 1..StreamLen, RecvBody(n)
    PROVE  IInv'
<1> USE ConstantFacts
<1>1. /\ TypeOK /\ NoLeak /\ connected /\ ~InHeader /\ BodyPart /\ BehindDelivered
      /\ DeliveredWhole /\ connected' /\ sizeAt' = sizeAt /\ hbuf' = hbuf
  BY DEF RecvBody, IInv
<1>2. /\ n \in Nat /\ pos \in Nat /\ off \in Nat /\ rest \in Nat /\ pos' = pos + n
      /\ pos' \in 0..StreamLen /\ pos + n <= StreamLen /\ n <= rest
      /\ msize \in Nat /\ off + rest = msize /\ off >= HdrSize /\ msize = sizeAt[Begin]
      /\ Begin \in DOMAIN sizeAt /\ ~WrongPackage(sizeAt[Begin])
  BY <1>1 DEF RecvBody, TypeOK, BodyPart
<1>3. Store(mdata, n) \in Buffer(msize)
  BY <1>1, <1>2, StoreType DEF TypeOK
<1>4. \A j \in 0..off + n - 1 : Store(mdata, n)[j] = Begin + j
  BY <1>1, <1>2, StoreRun DEF TypeOK, BodyPart, Begin
<1>5. Begin \in Nat /\ live = 1
  BY <1>1, <1>2 DEF BehindDelivered, NoLeak
<1>6. CASE n # rest
  <2>1. /\ stat' = "PKG_BODY_RECEIVING" /\ off' = off + n /\ rest' = rest - n
        /\ mdata' = Store(mdata, n) /\ UNCHANGED <<msize, live, delivered>>
    BY <1>6 DEF RecvBody
  <2>2. n < rest /\ Begin' = Begin
    BY <2>1, <1>2, <1>6 DEF Begin
  <2>3. TypeOK'
    BY <2>1, <2>2, <1>1, <1>2, <1>3 DEF TypeOK
  <2>4. HeaderPart' /\ NoLeak'
    BY <2>1, <1>1 DEF HeaderPart, InHeader, NoLeak
  <2>5. BodyPart'
    <3>1. off' + rest' = msize' /\ off' >= HdrSize /\ ~WrongPackage(msize)'
      BY <2>1, <1>2 DEF WrongPackage
    <3>2. Begin' \in DOMAIN sizeAt' /\ msize' = sizeAt'[Begin']
      BY <2>1, <2>2, <1>1, <1>2
    <3>3. \A j \in 0..off' - 1 : mdata'[j] = Begin' + j
      <4>1. 0..off' - 1 = 0..off + n - 1
        BY <2>1, <1>2
      <4>2. QED
        BY <4>1, <2>1, <2>2, <1>4
    <3>4. QED
      BY <3>1, <3>2, <3>3 DEF BodyPart
  <2>6. BehindDelivered'
    BY <2>1, <2>2, <1>1 DEF BehindDelivered
  <2>7. DeliveredWhole'
    BY <2>1, <1>1, SameDelivered
  <2>8. QED
    BY <2>3, <2>4, <2>5, <2>6, <2>7, <1>1 DEF IInv
<1>7. CASE n = rest
  <2>1. /\ stat' = "PKG_HDR_START" /\ off' = 0 /\ rest' = HdrSize
        /\ msize' = 0 /\ mdata' = Fresh(0) /\ live' = live - 1
        /\ delivered' = Append(delivered, Store(mdata, n))
    BY <1>7 DEF RecvBody, RestoreInitialState
  <2>2. off + n = msize /\ pos' = Begin + msize
    BY <1>2, <1>7 DEF Begin
  <2>3. Begin' = Begin + msize
    BY <2>1, <2>2, <1>2, <1>5 DEF Begin
  <2>4. Store(mdata, n) = [j \in 0..sizeAt[Begin] - 1 |-> Begin + j]
    <3>1. \A j \in 0..msize - 1 : Store(mdata, n)[j] = Begin + j
      <4>1. 0..msize - 1 = 0..off + n - 1
        BY <2>2, <1>2
      <4>2. QED
        BY <4>1, <1>4
    <3>2. Store(mdata, n) = [j \in 0..msize - 1 |-> Store(mdata, n)[j]]
      BY <1>3 DEF Buffer
    <3>3. QED
      BY <3>1, <3>2, <1>2
  <2>5. /\ DeliveredWhole'
        /\ \A i \in 1..Len(delivered') :
              delivered'[i][0] + sizeAt[delivered'[i][0]] <= Begin + sizeAt[Begin]
        /\ delivered' \in Seq(UNION {Buffer(k) : k \in 0..PkgMaxSize})
    <3>1. Begin + sizeAt[Begin] <= StreamLen
      BY <2>2, <1>2
    <3>2. delivered' = Append(delivered, [j \in 0..sizeAt[Begin] - 1 |-> Begin + j])
      BY <2>1, <2>4
    <3>3. QED
      BY <3>1, <3>2, <1>1, <1>2, AppendPackage DEF TypeOK
  <2>6. TypeOK'
    <3>1. mdata' \in Buffer(msize')
      BY <2>1 DEF Fresh, Buffer, Byte
    <3>2. QED
      BY <2>1, <2>5, <3>1, <1>1, <1>2, <1>5 DEF TypeOK
  <2>7. HeaderPart' /\ BodyPart' /\ NoLeak'
    BY <2>1, <1>5 DEF HeaderPart, BodyPart, InHeader, NoLeak
  <2>8. BehindDelivered'
    BY <2>3, <2>5, <1>1, <1>2, <1>5 DEF BehindDelivered
  <2>9. QED
    BY <2>5, <2>6, <2>7, <2>8, <1>1 DEF IInv
<1>8. QED
  BY <1>6, <1>7

\* The peer goes and the connection is handed to another one.
LEMMA HangUpReuseStep ==
    ASSUME IInv, HangUp \/ Reuse
    PROVE  IInv'
<1> USE ConstantFacts
<1>1. CASE HangUp
  <2>1. TypeOK'
    <3>1. sizeAt' \in Stream
      BY <1>1 DEF IInv, HangUp, TypeOK, Stream
    <3>2. mdata' \in Buffer(msize')
      BY <1>1 DEF HangUp, Buffer, Fresh, Byte
    <3>3. delivered' \in Seq(UNION {Buffer(k) : k \in 0..PkgMaxSize})
      BY <1>1 DEF HangUp
    <3>4. live' \in Int /\ pos' \in 0..StreamLen /\ msize' \in Nat
      <4>1. live \in Int /\ (live' = live \/ live' = live - 1)
        BY <1>1 DEF IInv, TypeOK, HangUp
      <4>2. live' \in Int
        BY <4>1
      <4>3. pos' = 0 /\ msize' = 0
        BY <1>1 DEF HangUp
      <4>4. QED
        BY <4>2, <4>3
    <3>5. connected' \in BOOLEAN
      BY <1>1, Zenon DEF HangUp
    <3>6. QED
      BY <3>1, <3>2, <3>3, <3>4, <3>5, <1>1 DEF IInv, HangUp, TypeOK
  <2>2. NoLeak'
    BY <1>1 DEF IInv, HangUp, TypeOK, NoLeak
  <2>3. QED
    BY <2>1, <2>2, <1>1 DEF IInv, HangUp, DeliveredWhole
<1>2. CASE Reuse
  <2>1. TypeOK'
    BY <1>2 DEF IInv, Reuse, RestoreInitialState, TypeOK, Stream, Buffer, Fresh, Byte
  <2>2. NoLeak'
    BY <1>2 DEF IInv, Reuse, TypeOK, NoLeak
  <2>3. HeaderPart' /\ BodyPart' /\ BehindDelivered' /\ DeliveredWhole'
    BY <1>2 DEF IInv, Reuse, RestoreInitialState, TypeOK, HeaderPart, BodyPart,
                BehindDelivered, DeliveredWhole, InHeader, Begin
  <2>4. QED
    BY <2>1, <2>2, <2>3, <1>2 DEF IInv, Reuse
<1>3. QED
  BY <1>1, <1>2

LEMMA StutterStep == IInv /\ UNCHANGED vars => IInv'
BY DEF vars, IInv, TypeOK, NoLeak, HeaderPart, BodyPart, BehindDelivered, DeliveredWhole,
       InHeader, Begin, WrongPackage

\* The invariant holds in every reachable state.
THEOREM Invariant == Spec => []IInv
<1>1. IInv /\ [Next]_vars => IInv'
  BY RecvHeaderStep, RecvBodyStep, HangUpReuseStep, StutterStep DEF Next
<1>2. QED
  BY InitIInv, <1>1, PTL DEF Spec

\* Every state of the receiver has the type TypeOK gives it.
THEOREM TypeCorrect == Spec => []TypeOK
<1>1. IInv => TypeOK
  BY DEF IInv
<1>2. QED
  BY <1>1, Invariant, PTL

\* _read_request_handler never lets recv write outside hdr_buf or the package.
THEOREM InBoundsCorrect == Spec => []WritesInBounds
<1>1. IInv => WritesInBounds
  BY ConstantFacts DEF IInv, TypeOK, HeaderPart, BodyPart, WritesInBounds
<1>2. QED
  BY <1>1, Invariant, PTL

\* No package buffer is leaked by the receiving side of a connection.
THEOREM NoLeakCorrect == Spec => []NoLeak
<1>1. IInv => NoLeak
  BY DEF IInv
<1>2. QED
  BY <1>1, Invariant, PTL

\* Whatever the pieces in which recv returns the stream, every package given to
\* the thread pool is whole, unmixed and behind the ones before it.
THEOREM WholeCorrect == Spec => []DeliveredWhole
<1>1. IInv => DeliveredWhole
  BY DEF IInv
<1>2. QED
  BY <1>1, Invariant, PTL

-----------------------------------------------------------------------------
(* The parse of the whole stream. *)

Pkgs == UNION {[0..k - 1 -> Nat] : k \in Nat}

\* One unfolding of the parse, with f for the recursive call.
ParseStep(s, n, f, p) ==
    IF p + HdrSize > n THEN <<>>
    ELSE IF s[p] < HdrSize \/ s[p] > PkgMaxSize - PkgSlack THEN f[p + HdrSize]
    ELSE IF p + s[p] > n THEN <<>>
    ELSE <<[i \in 0..s[p] - 1 |-> p + i]>> \o f[p + s[p]]

\* What was handed over and what the parse finds from Begin on is the parse of
\* the stream, whatever length of it the reader is given.
ParsePart ==
    connected =>
        \A m \in Begin..StreamLen :
            PackagesFrom(sizeAt, m)[0] = delivered \o PackagesFrom(sizeAt, m)[Begin]

\* Every set of numbers has a least one.
LEMMA LeastPosition ==
    ASSUME NEW S \in SUBSET Nat, S # {}
    PROVE  \E i \in S : \A k \in S : i <= k
<1>1. \E i \in S : \A k \in S : ~(<<k, i>> \in OpToRel(<, Nat))
  BY NatLessThanWellFounded, WFMin, Zenon
<1>2. PICK i \in S : \A k \in S : ~(<<k, i>> \in OpToRel(<, Nat))
  BY <1>1
<1>3. ASSUME NEW k \in S
      PROVE  i <= k
  <2>1. k \in Nat /\ i \in Nat
    OBVIOUS
  <2>2. ~(k < i)
    BY <1>2, <2>1 DEF OpToRel
  <2>3. QED
    BY <2>1, <2>2
<1>4. QED
  BY <1>3

\* Induction from n down to 0, over a set of positions.
LEMMA DownwardInduction ==
    ASSUME NEW n \in Nat, NEW S,
           \A p \in 0..n : (\A q \in (p + 1)..n : q \in S) => p \in S
    PROVE  \A p \in 0..n : p \in S
<1> DEFINE C == {k \in 0..n : n - k \notin S}
<1>1. SUFFICES ASSUME C # {}
               PROVE  FALSE
  <2>1. ASSUME NEW p \in 0..n, C = {}
        PROVE  p \in S
    <3>1. n - p \in 0..n /\ n - (n - p) = p
      OBVIOUS
    <3>2. n - p \notin C
      BY <2>1
    <3>3. QED
      BY <3>1, <3>2
  <2>2. QED
    BY <2>1
<1>2. PICK k \in C : \A j \in C : k <= j
  <2>1. C \in SUBSET Nat
    OBVIOUS
  <2>2. QED
    BY <2>1, <1>1, LeastPosition, Zenon
<1>3. k \in 0..n /\ n - k \in 0..n /\ n - k \notin S
  OBVIOUS
<1>4. ASSUME NEW q \in (n - k + 1)..n
      PROVE  q \in S
  <2>1. n - q \in 0..n /\ n - q < k /\ n - (n - q) = q
    BY <1>3
  <2>2. n - q \notin C
    BY <2>1, <1>2
  <2>3. QED
    BY <2>1, <2>2
<1>5. QED
  BY <1>3, <1>4

\* A package of the stream.
LEMMA RunType ==
    ASSUME NEW p \in Nat, NEW k \in Nat
    PROVE  [i \in 0..k - 1 |-> p + i] \in Pkgs
<1>1. [i \in 0..k - 1 |-> p + i] \in [0..k - 1 -> Nat]
  OBVIOUS
<1>2. QED
  BY <1>1 DEF Pkgs

\* The parse at p looks only behind p, and finds packages.
LEMMA ParseStepLocal ==
    ASSUME NEW s \in Stream, NEW n \in 0..StreamLen, NEW p \in 0..n, NEW f,
           \A q \in (p + 1)..n : f[q] \in Seq(Pkgs)
    PROVE  /\ ParseStep(s, n, f, p) \in Seq(Pkgs)
           /\ \A g : (\A q \in (p + 1)..n : g[q] = f[q])
                        => ParseStep(s, n, g, p) = ParseStep(s, n, f, p)
<1> USE ConstantFacts
<1> DEFINE pkg == [i \in 0..s[p] - 1 |-> p + i]
<1>1. CASE p + HdrSize > n
  BY <1>1 DEF ParseStep
<1>2. CASE ~(p + HdrSize > n)
  <2>1. p + HdrSize \in (p + 1)..n /\ p \in Nat
    BY <1>2
  <2>2. s[p] \in Nat
    BY <1>2 DEF Stream
  <2>3. CASE s[p] < HdrSize \/ s[p] > PkgMaxSize - PkgSlack
    BY <1>2, <2>1, <2>3 DEF ParseStep
  <2>4. CASE ~(s[p] < HdrSize \/ s[p] > PkgMaxSize - PkgSlack) /\ p + s[p] > n
    BY <1>2, <2>4 DEF ParseStep
  <2>5. CASE ~(s[p] < HdrSize \/ s[p] > PkgMaxSize - PkgSlack) /\ ~(p + s[p] > n)
    <3>1. p + s[p] \in (p + 1)..n
      BY <2>1, <2>2, <2>5
    <3>2. pkg \in Pkgs
      BY <2>1, <2>2, RunType
    <3> HIDE DEF pkg
    <3>3. \A g : ParseStep(s, n, g, p) = <<pkg>> \o g[p + s[p]]
      BY <1>2, <2>5, Zenon DEF ParseStep, pkg
    <3>4. <<pkg>> \o f[p + s[p]] \in Seq(Pkgs)
      <4>1. <<pkg>> \in Seq(Pkgs) /\ f[p + s[p]] \in Seq(Pkgs)
        BY <3>1, <3>2
      <4>2. QED
        BY <4>1
    <3>5. QED
      BY <3>1, <3>3, <3>4, Zenon
  <2>6. QED
    BY <2>3, <2>4, <2>5
<1>3. QED
  BY <1>1, <1>2

\* There is a function that satisfies the equation of the parse from p on.
LEMMA ParseExists ==
    ASSUME NEW s \in Stream, NEW n \in 0..StreamLen
    PROVE  \E f : f = [p \in 0..(n + 1) |-> ParseStep(s, n, f, p)]
<1> USE ConstantFacts
<1> DEFINE Solves(f, p) == /\ \A q \in p..n : f[q] \in Seq(Pkgs) /\ f[q] = ParseStep(s, n, f, q)
           S == {p \in 0..n : \E f : Solves(f, p)}
<1>1. ASSUME NEW p \in 0..n, \A q \in (p + 1)..n : q \in S
      PROVE  p \in S
  <2>1. PICK f : Solves(f, p + 1)
    <3>1. CASE p = n
      BY <3>1
    <3>2. CASE p # n
      <4>1. p + 1 \in (p + 1)..n
        BY <3>2
      <4>2. QED
        BY <4>1, <1>1
    <3>3. QED
      BY <3>1, <3>2
  <2>2. /\ ParseStep(s, n, f, p) \in Seq(Pkgs)
        /\ \A g : (\A q \in (p + 1)..n : g[q] = f[q]) => ParseStep(s, n, g, p) = ParseStep(s, n, f, p)
    BY <2>1, ParseStepLocal
  <2> DEFINE g == [q \in 0..n |-> IF q = p THEN ParseStep(s, n, f, p) ELSE f[q]]
  <2>3. /\ g[p] = ParseStep(s, n, f, p)
        /\ \A q \in (p + 1)..n : g[q] = f[q]
    OBVIOUS
  <2> HIDE DEF g
  <2>4. ASSUME NEW q \in p..n
        PROVE  g[q] \in Seq(Pkgs) /\ g[q] = ParseStep(s, n, g, q)
    <3>1. CASE q = p
      BY <3>1, <2>2, <2>3, Zenon
    <3>2. CASE q \in (p + 1)..n
      <4>1. q \in 0..n /\ \A r \in (q + 1)..n : r \in (p + 1)..n
        BY <3>2
      <4>2. \A r \in (q + 1)..n : f[r] \in Seq(Pkgs) /\ g[r] = f[r]
        BY <4>1, <2>1, <2>3
      <4>3. ParseStep(s, n, g, q) = ParseStep(s, n, f, q)
        BY <4>1, <4>2, ParseStepLocal, Zenon
      <4>4. QED
        BY <3>2, <4>3, <2>1, <2>3
    <3>3. QED
      BY <3>1, <3>2
  <2>5. QED
    BY <2>4
<1>2. \A p \in 0..n : p \in S
  <2> HIDE DEF S
  <2>1. n \in Nat
    OBVIOUS
  <2>2. \A p \in 0..n : (\A q \in (p + 1)..n : q \in S) => p \in S
    BY <1>1
  <2>3. QED
    BY <2>1, <2>2, DownwardInduction, Zenon
<1>3. PICK f : Solves(f, 0)
  <2>1. 0 \in 0..n
    OBVIOUS
  <2>2. QED
    BY <2>1, <1>2
<1> DEFINE g == [p \in 0..(n + 1) |-> IF p \in 0..n THEN f[p] ELSE <<>>]
<1>4. \A q \in 0..n : g[q] = f[q]
  OBVIOUS
<1>5. ASSUME NEW p \in 0..(n + 1)
      PROVE  g[p] = ParseStep(s, n, g, p)
  <2>1. CASE p \in 0..n
    <3>1. \A r \in (p + 1)..n : f[r] \in Seq(Pkgs) /\ g[r] = f[r]
      BY <2>1, <1>3, <1>4
    <3> HIDE DEF g
    <3>2. ParseStep(s, n, g, p) = ParseStep(s, n, f, p)
      BY <2>1, <3>1, ParseStepLocal, Zenon
    <3>3. QED
      BY <2>1, <3>2, <1>3, <1>4
  <2>2. CASE p \notin 0..n
    <3>1. g[p] = <<>> /\ p + HdrSize > n
      BY <2>2
    <3> HIDE DEF g
    <3>2. QED
      BY <3>1 DEF ParseStep
  <2>3. QED
    BY <2>1, <2>2
<1>6. g = [p \in 0..(n + 1) |-> g[p]]
  OBVIOUS
<1>7. g = [p \in 0..(n + 1) |-> ParseStep(s, n, g, p)]
  <2> HIDE DEF g
  <2>1. [p \in 0..(n + 1) |-> g[p]] = [p \in 0..(n + 1) |-> ParseStep(s, n, g, p)]
    BY <1>5
  <2>2. QED
    BY <2>1, <1>6
<1>8. QED
  <2> HIDE DEF g
  <2>1. QED
    BY <1>7, Zenon

\* The parse satisfies its equation, and finds packages.
LEMMA ParseUnfolds ==
    ASSUME NEW s \in Stream, NEW n \in 0..StreamLen
    PROVE  \A p \in 0..n :
              /\ PackagesFrom(s, n)[p] = ParseStep(s, n, PackagesFrom(s, n), p)
              /\ PackagesFrom(s, n)[p] \in Seq(Pkgs)
<1> USE ConstantFacts
<1> DEFINE F == PackagesFrom(s, n)
           S == {p \in 0..n : F[p] \in Seq(Pkgs)}
<1>1. F = CHOOSE f : f = [p \in 0..(n + 1) |-> ParseStep(s, n, f, p)]
  BY DEF PackagesFrom, ParseStep
<1>2. F = [p \in 0..(n + 1) |-> ParseStep(s, n, F, p)]
  <2> HIDE DEF F
  <2>1. QED
    BY <1>1, ParseExists, Zenon
<1> HIDE DEF F
<1>3. \A p \in 0..n : F[p] = ParseStep(s, n, F, p)
  <2>1. \A p \in 0..n : p \in 0..(n + 1)
    OBVIOUS
  <2>2. QED
    BY <2>1, <1>2, Zenon
<1>4. ASSUME NEW p \in 0..n, \A q \in (p + 1)..n : q \in S
      PROVE  p \in S
  <2>1. \A q \in (p + 1)..n : F[q] \in Seq(Pkgs)
    BY <1>4
  <2>2. ParseStep(s, n, F, p) \in Seq(Pkgs)
    BY <2>1, ParseStepLocal, Zenon
  <2>3. QED
    BY <2>2, <1>3
<1>5. \A p \in 0..n : p \in S
  <2> HIDE DEF S
  <2>1. n \in Nat
    OBVIOUS
  <2>2. \A p \in 0..n : (\A q \in (p + 1)..n : q \in S) => p \in S
    BY <1>4
  <2>3. QED
    BY <2>1, <2>2, DownwardInduction, Zenon
<1>6. QED
  BY <1>3, <1>5 DEF F

\* The parse at the beginning of a header that announces no good size goes on
\* behind that header.
LEMMA ParseSkips ==
    ASSUME sizeAt \in Stream, NEW p \in Nat, NEW m \in 0..StreamLen, p + HdrSize <= m,
           WrongPackage(sizeAt[p])
    PROVE  PackagesFrom(sizeAt, m)[p] = PackagesFrom(sizeAt, m)[p + HdrSize]
<1>1. p \in 0..m /\ ~(p + HdrSize > m)
  BY ConstantFacts
<1>2. PackagesFrom(sizeAt, m)[p] = ParseStep(sizeAt, m, PackagesFrom(sizeAt, m), p)
  BY <1>1, ParseUnfolds
<1>3. QED
  BY <1>1, <1>2, Zenon DEF ParseStep, WrongPackage

\* The parse at the beginning of a package that is whole starts with that package.
LEMMA ParseTakes ==
    ASSUME sizeAt \in Stream, NEW p \in Nat, NEW m \in 0..StreamLen,
           p \in DOMAIN sizeAt, p + sizeAt[p] <= m, ~WrongPackage(sizeAt[p])
    PROVE  /\ PackagesFrom(sizeAt, m)[p]
                = <<[i \in 0..sizeAt[p] - 1 |-> p + i]>> \o PackagesFrom(sizeAt, m)[p + sizeAt[p]]
           /\ PackagesFrom(sizeAt, m)[p + sizeAt[p]] \in Seq(Pkgs)
           /\ [i \in 0..sizeAt[p] - 1 |-> p + i] \in Pkgs
<1>1. sizeAt[p] \in Nat
  BY ConstantFacts DEF Stream
<1>2. sizeAt[p] >= HdrSize
  BY <1>1, ConstantFacts DEF WrongPackage
<1>3. p \in 0..m /\ ~(p + HdrSize > m) /\ ~(p + sizeAt[p] > m) /\ p + sizeAt[p] \in 0..m
  BY <1>1, <1>2, ConstantFacts
<1>4. /\ PackagesFrom(sizeAt, m)[p] = ParseStep(sizeAt, m, PackagesFrom(sizeAt, m), p)
      /\ PackagesFrom(sizeAt, m)[p + sizeAt[p]] \in Seq(Pkgs)
  BY <1>3, ParseUnfolds
<1>5. [i \in 0..sizeAt[p] - 1 |-> p + i] \in Pkgs
  BY <1>1, RunType
<1>6. QED
  BY <1>3, <1>4, <1>5, Zenon DEF ParseStep, WrongPackage

\* Nothing is complete in the bytes of a package that is still being received.
LEMMA ParseWaits ==
    ASSUME IInv, connected
    PROVE  PackagesFrom(sizeAt, pos)[Begin] = <<>>
<1> USE ConstantFacts
<1>1. /\ sizeAt \in Stream /\ pos \in 0..StreamLen /\ off \in Nat /\ rest \in Nat \ {0}
      /\ Begin \in Nat /\ HeaderPart /\ BodyPart
  BY DEF IInv, TypeOK, BehindDelivered
<1>2. Begin + off = pos /\ Begin \in 0..pos
  BY <1>1 DEF Begin
<1> HIDE DEF Begin
<1>3. PackagesFrom(sizeAt, pos)[Begin] = ParseStep(sizeAt, pos, PackagesFrom(sizeAt, pos), Begin)
  BY <1>1, <1>2, ParseUnfolds
<1>4. CASE InHeader
  <2>1. Begin + HdrSize > pos
    BY <1>1, <1>2, <1>4 DEF HeaderPart
  <2>2. QED
    BY <2>1, <1>3, Zenon DEF ParseStep
<1>5. CASE ~InHeader
  <2>1. /\ ~(Begin + HdrSize > pos) /\ Begin + sizeAt[Begin] > pos
        /\ ~WrongPackage(sizeAt[Begin])
    BY <1>1, <1>2, <1>5 DEF BodyPart
  <2>2. QED
    BY <2>1, <1>3, Zenon DEF ParseStep, WrongPackage
<1>6. QED
  BY <1>4, <1>5

\* What one step of a connection that stays connected does to the position of
\* the package being received and to what was handed over.
LEMMA Progress ==
    ASSUME IInv, NEW n \in 1..StreamLen, RecvHeader(n) \/ RecvBody(n)
    PROVE  /\ connected /\ sizeAt' = sizeAt
           /\ \/ Begin' = Begin /\ delivered' = delivered
              \/ /\ WrongPackage(sizeAt[Begin])
                 /\ Begin' = Begin + HdrSize /\ delivered' = delivered
              \/ /\ Begin \in DOMAIN sizeAt /\ ~WrongPackage(sizeAt[Begin])
                 /\ Begin' = Begin + sizeAt[Begin]
                 /\ delivered' = Append(delivered, [j \in 0..sizeAt[Begin] - 1 |-> Begin + j])
<1> USE ConstantFacts
<1>1. /\ TypeOK /\ connected /\ HeaderPart /\ BodyPart /\ BehindDelivered /\ sizeAt' = sizeAt
  BY DEF IInv, RecvHeader, RecvBody
<1>2. /\ n \in Nat /\ pos \in Nat /\ off \in Nat /\ rest \in Nat /\ pos' = pos + n
      /\ pos + n <= StreamLen /\ n <= rest /\ Begin \in Nat /\ sizeAt \in Stream
  <2>1. pos \in Nat /\ off \in Nat /\ rest \in Nat /\ Begin \in Nat /\ sizeAt \in Stream
    BY <1>1 DEF TypeOK, BehindDelivered
  <2>2. n \in Nat /\ pos' = pos + n /\ n <= StreamLen - pos /\ n <= rest
    BY DEF RecvHeader, RecvBody
  <2>3. QED
    BY <2>1, <2>2
<1>3. CASE RecvHeader(n)
  <2>1. InHeader /\ off + rest = HdrSize
    BY <1>1, <1>3 DEF RecvHeader, HeaderPart
  <2> DEFINE whole == n = (IF stat = "PKG_HDR_START" THEN HdrSize ELSE rest)
  <2>2. CASE ~whole
    <3>1. off' = off + n /\ delivered' = delivered
      BY <1>3, <2>2 DEF RecvHeader
    <3>2. Begin' = Begin
      BY <3>1, <1>2 DEF Begin
    <3>3. QED
      BY <3>1, <3>2, <1>1
  <2>3. CASE whole
    <3>1. off + n = HdrSize /\ pos' = Begin + HdrSize
      BY <2>1, <2>3, <1>1, <1>2 DEF HeaderPart, Begin
    <3>2. hbuf' = Store(hbuf, n) /\ hbuf \in Buffer(HdrBufSize)
      BY <1>1, <1>3 DEF RecvHeader, TypeOK
    <3>3. \A j \in 0..HdrSize - 1 : hbuf'[j] = Begin + j
      <4>1. \A j \in 0..off - 1 : hbuf[j] = pos - off + j
        BY <2>1, <1>1 DEF HeaderPart, Begin
      <4>2. \A j \in 0..off + n - 1 : hbuf'[j] = pos - off + j
        BY <4>1, <3>1, <3>2, <1>2, StoreRun
      <4>3. 0..off + n - 1 = 0..HdrSize - 1
        BY <3>1, <1>2
      <4>4. QED
        BY <4>2, <4>3 DEF Begin
    <3>4. DOMAIN sizeAt = 0..StreamLen - HdrSize /\ Begin \in DOMAIN sizeAt
      BY <3>1, <1>2 DEF Stream
    <3>5. AnnouncedSize(hbuf') = sizeAt[Begin]
      <4>1. hbuf'[0] = Begin
        BY <3>3, <1>2
      <4>2. QED
        BY <4>1, <3>4 DEF AnnouncedSize
    <3>6. CASE HeaderRejected(hbuf')
      <4>1. off' = 0 /\ delivered' = delivered /\ WrongPackage(sizeAt[Begin])
        BY <3>5, <3>6 DEF HeaderRejected, RestoreInitialState
      <4>2. Begin' = Begin + HdrSize
        BY <4>1, <3>1, <1>2 DEF Begin
      <4>3. QED
        BY <4>1, <4>2, <1>1
    <3>7. CASE HeaderOnly(hbuf')
      <4>1. off' = 0 /\ ~WrongPackage(sizeAt[Begin]) /\ sizeAt[Begin] = HdrSize
        BY <3>5, <3>7 DEF HeaderOnly, RestoreInitialState
      <4>2. Begin' = Begin + sizeAt[Begin]
        BY <4>1, <3>1, <1>2 DEF Begin
      <4>3. [j \in 0..HdrSize - 1 |-> hbuf'[j]] = [j \in 0..HdrSize - 1 |-> Begin + j]
        BY <3>3
      <4>4. delivered' = Append(delivered, [j \in 0..sizeAt[Begin] - 1 |-> Begin + j])
        BY <4>1, <4>3, <3>7 DEF HeaderOnly
      <4>5. QED
        BY <4>1, <4>2, <4>4, <3>4, <1>1
    <3>8. CASE HeaderWithBody(hbuf')
      <4>1. off' = HdrSize /\ delivered' = delivered
        BY <3>8 DEF HeaderWithBody
      <4>2. Begin' = Begin
        BY <4>1, <3>1, <1>2 DEF Begin
      <4>3. QED
        BY <4>1, <4>2, <1>1
    <3>9. QED
      BY <1>3, <2>3, <3>6, <3>7, <3>8 DEF RecvHeader
  <2>4. QED
    BY <2>2, <2>3
<1>4. CASE RecvBody(n)
  <2>1. /\ ~InHeader /\ off + rest = msize /\ msize = sizeAt[Begin] /\ msize \in Nat
        /\ Begin \in DOMAIN sizeAt /\ ~WrongPackage(sizeAt[Begin])
    BY <1>1, <1>4 DEF RecvBody, BodyPart, TypeOK
  <2>2. CASE n # rest
    <3>1. off' = off + n /\ delivered' = delivered
      BY <1>4, <2>2 DEF RecvBody
    <3>2. Begin' = Begin
      BY <3>1, <1>2 DEF Begin
    <3>3. QED
      BY <3>1, <3>2, <1>1
  <2>3. CASE n = rest
    <3>1. off' = 0 /\ delivered' = Append(delivered, Store(mdata, n))
      BY <1>4, <2>3 DEF RecvBody, RestoreInitialState
    <3>2. off + n = msize /\ Begin' = Begin + sizeAt[Begin]
      BY <3>1, <2>1, <2>3, <1>2 DEF Begin
    <3>3. mdata \in Buffer(msize) /\ \A j \in 0..off - 1 : mdata[j] = pos - off + j
      BY <2>1, <1>1 DEF TypeOK, BodyPart, Begin
    <3>4. \A j \in 0..off + n - 1 : Store(mdata, n)[j] = pos - off + j
      BY <3>2, <3>3, <2>1, <1>2, StoreRun
    <3>5. Store(mdata, n) \in Buffer(msize)
      BY <3>3, <2>1, <1>2, StoreType
    <3>6. \A j \in 0..sizeAt[Begin] - 1 : Store(mdata, n)[j] = Begin + j
      <4>1. 0..off + n - 1 = 0..sizeAt[Begin] - 1
        BY <3>2, <2>1, <1>2
      <4>2. QED
        BY <4>1, <3>4 DEF Begin
    <3>7. Store(mdata, n) = [j \in 0..sizeAt[Begin] - 1 |-> Begin + j]
      <4>1. Store(mdata, n) = [j \in 0..sizeAt[Begin] - 1 |-> Store(mdata, n)[j]]
        BY <3>5, <2>1 DEF Buffer
      <4>2. QED
        BY <4>1, <3>6
    <3>8. QED
      BY <3>1, <3>2, <3>7, <2>1, <1>1
  <2>4. QED
    BY <2>2, <2>3
<1>5. QED
  BY <1>3, <1>4

\* A piece of the stream arrives: what was handed over stays what the parse found.
LEMMA ParseRecv ==
    ASSUME IInv, IInv', ParsePart, NEW n \in 1..StreamLen, RecvHeader(n) \/ RecvBody(n)
    PROVE  ParsePart'
<1> USE ConstantFacts
<1>1. connected /\ sizeAt' = sizeAt
  BY Progress
<1>2. /\ sizeAt \in Stream /\ Begin \in Nat
      /\ DeliveredWhole
      /\ delivered \in Seq(UNION {Buffer(k) : k \in 0..PkgMaxSize})
  BY <1>1 DEF IInv, TypeOK, BehindDelivered
<1>3. delivered \in Seq(Pkgs)
  <2>1. \A k \in 0..PkgMaxSize : Buffer(k) \subseteq Pkgs
    <3> TAKE k \in 0..PkgMaxSize
    <3>1. Buffer(k) \subseteq [0..k - 1 -> Nat]
      BY DEF Buffer, Byte
    <3>2. k \in Nat
      OBVIOUS
    <3>3. QED
      BY <3>1, <3>2, Zenon DEF Pkgs
  <2>2. (UNION {Buffer(k) : k \in 0..PkgMaxSize}) \subseteq Pkgs
    BY <2>1
  <2> DEFINE B == UNION {Buffer(k) : k \in 0..PkgMaxSize}
  <2> HIDE DEF B
  <2>3. delivered \in Seq(B) /\ B \subseteq Pkgs
    BY <2>2, <1>2 DEF B
  <2>4. QED
    BY <2>3
<1>4. SUFFICES ASSUME NEW m \in Begin'..StreamLen
               PROVE  PackagesFrom(sizeAt, m)[0] = delivered' \o PackagesFrom(sizeAt, m)[Begin']
  BY <1>1 DEF ParsePart
<1>5. CASE Begin' = Begin /\ delivered' = delivered
  BY <1>1, <1>5 DEF ParsePart
<1>6. CASE /\ WrongPackage(sizeAt[Begin])
           /\ Begin' = Begin + HdrSize /\ delivered' = delivered
  <2>1. m \in 0..StreamLen /\ m \in Begin..StreamLen /\ Begin + HdrSize <= m
    BY <1>2, <1>6
  <2>2. PackagesFrom(sizeAt, m)[0] = delivered \o PackagesFrom(sizeAt, m)[Begin]
    BY <2>1, <1>1 DEF ParsePart
  <2>3. PackagesFrom(sizeAt, m)[Begin] = PackagesFrom(sizeAt, m)[Begin + HdrSize]
    BY <2>1, <1>2, <1>6, ParseSkips
  <2>4. QED
    BY <2>2, <2>3, <1>6
<1>7. CASE /\ Begin \in DOMAIN sizeAt /\ ~WrongPackage(sizeAt[Begin])
           /\ Begin' = Begin + sizeAt[Begin]
           /\ delivered' = Append(delivered, [j \in 0..sizeAt[Begin] - 1 |-> Begin + j])
  <2> DEFINE pkg == [j \in 0..sizeAt[Begin] - 1 |-> Begin + j]
             tail == PackagesFrom(sizeAt, m)[Begin + sizeAt[Begin]]
  <2>1. sizeAt[Begin] \in Nat
    BY <1>2, <1>7 DEF Stream
  <2>2. m \in 0..StreamLen /\ m \in Begin..StreamLen /\ Begin + sizeAt[Begin] <= m
    BY <2>1, <1>2, <1>7
  <2>3. PackagesFrom(sizeAt, m)[0] = delivered \o PackagesFrom(sizeAt, m)[Begin]
    BY <2>2, <1>1 DEF ParsePart
  <2>4. PackagesFrom(sizeAt, m)[Begin] = <<pkg>> \o tail /\ tail \in Seq(Pkgs) /\ pkg \in Pkgs
    BY <2>2, <1>2, <1>7, ParseTakes
  <2>5. delivered' = Append(delivered, pkg) /\ PackagesFrom(sizeAt, m)[Begin'] = tail
    BY <1>7
  <2> HIDE DEF pkg, tail
  <2>6. delivered \o (<<pkg>> \o tail) = Append(delivered, pkg) \o tail
    BY <1>3, <2>4, SMTT(30)
  <2>7. QED
    BY <2>3, <2>4, <2>5, <2>6
<1>8. QED
  BY <1>5, <1>6, <1>7, Progress

\* A session begins with nothing handed over.
LEMMA ParseBegins ==
    ASSUME sizeAt \in Stream, pos = 0, off = 0, delivered = <<>>
    PROVE  ParsePart
<1>1. Begin = 0
  BY DEF Begin
<1>2. ASSUME NEW m \in 0..StreamLen
      PROVE  PackagesFrom(sizeAt, m)[0] = delivered \o PackagesFrom(sizeAt, m)[0]
  <2>1. PackagesFrom(sizeAt, m)[0] \in Seq(Pkgs)
    BY ConstantFacts, ParseUnfolds
  <2>2. QED
    BY <2>1
<1>3. QED
  BY <1>1, <1>2 DEF ParsePart

LEMMA ParseBeginsNext ==
    ASSUME sizeAt' \in Stream, pos' = 0, off' = 0, delivered' = <<>>
    PROVE  ParsePart'
<1>1. Begin' = 0
  BY DEF Begin
<1>2. ASSUME NEW m \in 0..StreamLen
      PROVE  PackagesFrom(sizeAt', m)[0] = delivered' \o PackagesFrom(sizeAt', m)[0]
  <2>1. PackagesFrom(sizeAt', m)[0] \in Seq(Pkgs)
    BY ConstantFacts, ParseUnfolds
  <2>2. QED
    BY <2>1
<1>3. QED
  BY <1>1, <1>2 DEF ParsePart

\* However recv cuts the stream, the thread pool was given exactly the packages
\* that are complete in the bytes received so far: none is lost, repeated, cut
\* wrongly or out of order.
THEOREM ParseCorrect == Spec => []DeliveredIsParse
<1>1. Init => ParsePart
  BY ParseBegins DEF Init, InitialRecv
<1>2. IInv /\ IInv' /\ ParsePart /\ [Next]_vars => ParsePart'
  <2>1. ASSUME IInv, IInv', ParsePart, HangUp
        PROVE  ParsePart'
    BY <2>1 DEF HangUp, ParsePart
  <2>2. ASSUME IInv, IInv', ParsePart, Reuse
        PROVE  ParsePart'
    <3>1. sizeAt' \in Stream /\ pos' = 0 /\ off' = 0 /\ delivered' = <<>>
      BY <2>2 DEF IInv, Reuse, RestoreInitialState
    <3>2. QED
      BY <3>1, ParseBeginsNext
  <2>3. ASSUME ParsePart, UNCHANGED vars
        PROVE  ParsePart'
    BY <2>3 DEF vars, ParsePart, Begin
  <2>4. QED
    BY <2>1, <2>2, <2>3, ParseRecv DEF Next
<1>3. IInv /\ ParsePart => DeliveredIsParse
  <2>1. SUFFICES ASSUME IInv, ParsePart, connected
                 PROVE  delivered = Packages(pos)
    BY DEF DeliveredIsParse
  <2>2. pos \in Begin..StreamLen
    <3>1. pos \in 0..StreamLen /\ off \in Nat
      BY <2>1 DEF IInv, TypeOK
    <3>2. QED
      BY <3>1, ConstantFacts DEF Begin
  <2>3. Packages(pos) = delivered \o PackagesFrom(sizeAt, pos)[Begin]
    BY <2>1, <2>2 DEF ParsePart, Packages
  <2>4. Packages(pos) = delivered \o <<>>
    BY <2>1, <2>3, ParseWaits
  <2> DEFINE B == UNION {Buffer(k) : k \in 0..PkgMaxSize}
  <2>5. delivered \in Seq(B)
    BY <2>1 DEF IInv, TypeOK
  <2> HIDE DEF B
  <2>6. delivered \o <<>> = delivered
    BY <2>5
  <2>7. QED
    BY <2>4, <2>6
<1>4. QED
  BY <1>1, <1>2, <1>3, Invariant, PTL DEF Spec
=============================================================================
