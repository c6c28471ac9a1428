----------------------------- MODULE MgxPkgRecv -----------------------------
(***************************************************************************)
(* How a connection cuts the byte stream of its peer into packages         *)
(* (_read_request_handler and its two process steps).  TCP hands the bytes *)
(* over in pieces of any size; the handler fills hdr_buf, allocates a      *)
(* buffer of the announced size, fills it and gives it to the thread pool. *)
(*                                                                         *)
(* A byte is its position in the stream, so that a buffer shows where its  *)
(* contents come from.  All that the handler looks at is the pkg_size that *)
(* a header starting at a position announces: sizeAt.                      *)
(***************************************************************************)
EXTENDS Integers, Sequences

CONSTANTS HdrSize,      \* m_pkg_hdr_size
          HdrBufSize,   \* PKG_HDR_BUF_SIZE
          PkgMaxSize,   \* PKG_MAX_SIZE
          PkgSlack,     \* the 1000 that the test of pkg_size takes off
          Sizes,        \* values of pkg_size
          StreamLen     \* bound: bytes a peer sends

ASSUME SizeAssumption ==
    /\ HdrSize \in Nat \ {0} /\ HdrBufSize \in Nat /\ HdrSize <= HdrBufSize
    /\ PkgMaxSize \in Nat /\ PkgSlack \in Nat
    /\ Sizes \subseteq Nat /\ 0 \in Sizes
ASSUME StreamAssumption == StreamLen \in Nat /\ HdrSize <= StreamLen

VARIABLES sizeAt,       \* the stream: pkg_size of a header at every position
          pos,          \* bytes of it that recv has returned
          connected,    \* the connection is being read
          stat,         \* recv_stat
          hbuf,         \* hdr_buf
          off,          \* precv_buf, as an offset in hdr_buf or in the package
          rest,         \* rest_recv_size
          msize, mdata, \* precv_mem_addr: size and contents of the package; 0 for nullptr
          live,         \* history: buffers allocated and neither handed over nor deleted
          delivered     \* history: packages given to the thread pool in this session

recvv == <<stat, off, rest>>
vars == <<sizeAt, pos, connected, stat, hbuf, off, rest, msize, mdata, live, delivered>>

\* StreamLen stands for a byte that was never received.
Byte == 0..StreamLen
Buffer(n) == [0..n - 1 -> Byte]
Fresh(n) == [i \in 0..n - 1 |-> StreamLen]
Stream == [0..StreamLen - HdrSize -> Sizes]

TypeOK ==
    /\ sizeAt \in Stream
    /\ pos \in 0..StreamLen
    /\ connected \in BOOLEAN
    /\ stat \in {"PKG_HDR_START", "PKG_HDR_RECEIVING", "PKG_BODY_START", "PKG_BODY_RECEIVING"}
    /\ hbuf \in Buffer(HdrBufSize)
    /\ off \in Nat
    /\ rest \in Nat \ {0}
    /\ msize \in Nat
    /\ mdata \in Buffer(msize)
    /\ live \in Int
    /\ delivered \in Seq(UNION {Buffer(n) : n \in 0..PkgMaxSize})

\* recv_stat, precv_buf and rest_recv_size as get_one_to_use sets them.
InitialRecv == stat = "PKG_HDR_START" /\ off = 0 /\ rest = HdrSize

Init ==
    /\ sizeAt \in Stream
    /\ pos = 0
    /\ connected = TRUE
    /\ hbuf = Fresh(HdrBufSize)
    /\ InitialRecv
    /\ msize = 0 /\ mdata = Fresh(0)
    /\ live = 0
    /\ delivered = <<>>

-----------------------------------------------------------------------------
\* Buffer b after n bytes of the stream were received at offset off of it.
Store(b, n) ==
    [i \in DOMAIN b |-> IF i \in off..(off + n - 1) THEN pos + (i - off) ELSE b[i]]

AnnouncedSize(b) == IF b[0] \in DOMAIN sizeAt THEN sizeAt[b[0]] ELSE 0

\* Mutant: the lower bound is missing.
WrongPackage_NoLower(size) == size > PkgMaxSize - PkgSlack

\* Mutant: a package of the largest size is refused.
WrongPackage_OffByOne(size) == size < HdrSize \/ size >= PkgMaxSize - PkgSlack

WrongPackage(size) == size < HdrSize \/ size > PkgMaxSize - PkgSlack

\* Mutant: precv_buf is not set back to hdr_buf.
RestoreInitialState_KeepsPointer == stat' = "PKG_HDR_START" /\ rest' = HdrSize /\ UNCHANGED off

\* recv_stat, precv_buf and rest_recv_size are set back to their initial values.
RestoreInitialState == stat' = "PKG_HDR_START" /\ off' = 0 /\ rest' = HdrSize

\* read_request_handler_process_v1 for a header in b that announces no good size.
HeaderRejected(b) ==
    /\ WrongPackage(AnnouncedSize(b))
    /\ RestoreInitialState
    /\ UNCHANGED <<msize, mdata, live, delivered>>

\* A header without a body is handed over at once (process_v2).
HeaderOnly(b) ==
    /\ AnnouncedSize(b) = HdrSize
    /\ ~WrongPackage(AnnouncedSize(b))
    /\ delivered' = Append(delivered, [i \in 0..HdrSize - 1 |-> b[i]])
    /\ RestoreInitialState
    /\ UNCHANGED <<msize, mdata, live>>

\* The package is allocated and its header copied; the body comes next.
HeaderWithBody(b) ==
    LET size == AnnouncedSize(b) IN
    /\ size # HdrSize
    /\ ~WrongPackage(size)
    /\ msize' = size
    /\ mdata' = [i \in 0..size - 1 |-> IF i < HdrSize THEN b[i] ELSE StreamLen]
    /\ live' = live + 1
    /\ stat' = "PKG_BODY_START"
    /\ off' = HdrSize
    /\ rest' = size - HdrSize
    /\ UNCHANGED delivered

InHeader == stat \in {"PKG_HDR_START", "PKG_HDR_RECEIVING"}

\* recv returned n bytes of a header.
RecvHeader(n) ==
    /\ connected /\ InHeader
    /\ n <= rest /\ n <= StreamLen - pos
    /\ pos' = pos + n
    /\ hbuf' = Store(hbuf, n)
    /\ IF n = (IF stat = "PKG_HDR_START" THEN HdrSize ELSE rest)
       THEN HeaderRejected(hbuf') \/ HeaderOnly(hbuf') \/ HeaderWithBody(hbuf')
       ELSE /\ stat' = "PKG_HDR_RECEIVING"
            /\ off' = off + n
            /\ rest' = rest - n
            /\ UNCHANGED <<msize, mdata, live, delivered>>
    /\ UNCHANGED <<sizeAt, connected>>

\* Mutant: precv_buf is not advanced after a part of the body.
RecvBody_KeepsPointer(n) ==
    /\ connected /\ ~InHeader
    /\ n <= rest /\ n <= StreamLen - pos
    /\ pos' = pos + n
    /\ IF n = rest
       THEN /\ delivered' = Append(delivered, Store(mdata, n))
            /\ msize' = 0 /\ mdata' = Fresh(0)
            /\ live' = live - 1
            /\ RestoreInitialState
       ELSE /\ mdata' = Store(mdata, n)
            /\ stat' = "PKG_BODY_RECEIVING"
            /\ rest' = rest - n
            /\ UNCHANGED <<off, msize, live, delivered>>
    /\ UNCHANGED <<sizeAt, connected, hbuf>>

\* recv returned n bytes of a body; the package is handed over when it is whole.
RecvBody(n) ==
    /\ connected /\ ~InHeader
    /\ n <= rest /\ n <= StreamLen - pos
    /\ pos' = pos + n
    /\ IF n = rest
       THEN /\ delivered' = Append(delivered, Store(mdata, n))
            /\ msize' = 0 /\ mdata' = Fresh(0)
            /\ live' = live - 1
            /\ RestoreInitialState
       ELSE /\ mdata' = Store(mdata, n)
            /\ stat' = "PKG_BODY_RECEIVING"
            /\ off' = off + n
            /\ rest' = rest - n
            /\ UNCHANGED <<msize, live, delivered>>
    /\ UNCHANGED <<sizeAt, connected, hbuf>>

\* Mutant: the incomplete package is not deleted.
HangUp_Forgets ==
    /\ connected
    /\ connected' = FALSE
    /\ msize' = 0 /\ mdata' = Fresh(0)
    /\ sizeAt' = [p \in DOMAIN sizeAt |-> 0]
    /\ pos' = 0 /\ delivered' = <<>>
    /\ UNCHANGED <<stat, hbuf, off, rest, live>>

\* recv returned 0 or an error: the connection is given back and
\* put_one_to_free deletes a package that is still incomplete.
HangUp ==
    /\ connected
    /\ connected' = FALSE
    /\ msize' = 0 /\ mdata' = Fresh(0)
    /\ live' = IF msize # 0 THEN live - 1 ELSE live
    /\ sizeAt' = [p \in DOMAIN sizeAt |-> 0]
    /\ pos' = 0 /\ delivered' = <<>>
    /\ UNCHANGED <<stat, hbuf, off, rest>>

\* get_one_to_use for the next peer; hdr_buf keeps what it holds.
Reuse ==
    /\ ~connected
    /\ connected' = TRUE
    /\ sizeAt' \in Stream
    /\ RestoreInitialState
    /\ msize' = 0 /\ mdata' = Fresh(0)
    /\ UNCHANGED <<pos, hbuf, live, delivered>>

Next ==
    \/ \E n \in 1..StreamLen : RecvHeader(n) \/ RecvBody(n)
    \/ HangUp
    \/ Reuse

Spec == Init /\ [][Next]_vars

-----------------------------------------------------------------------------
(* Properties. *)

\* What recv may write, rest_recv_size bytes at precv_buf, lies inside hdr_buf
\* or inside the package that was allocated for it.
WritesInBounds ==
    connected => off + rest <= IF InHeader THEN HdrBufSize ELSE msize

\* precv_mem_addr is the only buffer that is neither handed over nor deleted:
\* none is leaked by a wrong header, a hang-up in the middle of a package or the
\* reuse of the connection.
NoLeak == live = IF msize = 0 THEN 0 ELSE 1

\* A package that was handed over is one run of the stream, as long as the
\* header it starts with announces, and lies behind the packages before it: no
\* byte is dropped inside a package, taken from another one or delivered twice.
DeliveredWhole ==
    connected =>
        /\ \A i \in 1..Len(delivered) :
              LET start == delivered[i][0] IN
              /\ start \in DOMAIN sizeAt
              /\ ~WrongPackage(sizeAt[start])
              /\ delivered[i] = [j \in 0..sizeAt[start] - 1 |-> start + j]
        /\ \A i, k \in 1..Len(delivered) :
              i < k => delivered[i][0] + sizeAt[delivered[i][0]] <= delivered[k][0]

\* The packages a reader with the whole stream s would find in its first n bytes
\* from position p on: a header of a wrong size is skipped, and the next header is
\* looked for right behind it.
PackagesFrom(s, n) ==
    LET parse[p \in 0..(n + 1)] ==
            IF p + HdrSize > n THEN <<>>
            ELSE IF s[p] < HdrSize \/ s[p] > PkgMaxSize - PkgSlack THEN parse[p + HdrSize]
            ELSE IF p + s[p] > n THEN <<>>
            ELSE <<[i \in 0..s[p] - 1 |-> p + i]>> \o parse[p + s[p]]
    IN  parse

Packages(n) == PackagesFrom(sizeAt, n)[0]

\* However recv cuts the stream, what was handed to the thread pool is exactly
\* the packages that are complete in the bytes received so far, byte for byte
\* and in order, also for a connection that was left in the middle of a package
\* by the peer before.
DeliveredIsParse == connected => delivered = Packages(pos)
=============================================================================
