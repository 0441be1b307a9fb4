------------------------ MODULE CommandServerProofs ------------------------
(***************************************************************************)
(* Theorems about CommandServer, for every set of clients, of command      *)
(* sockets, of drivers and of messages, and every bound.                   *)
(***************************************************************************)
EXTENDS CommandServer, FiniteSetTheorems, SequenceTheorems, TLAPS

\* What the tuples of unchanged variables stand for.
USE DEF textVars, handlerVars, registryVars, deviceVars, wireVars, askVars

-----------------------------------------------------------------------------
(***************************************************************************)
(* What the actions are built from.                                        *)
(***************************************************************************)
LEMMA LeastNumber ==
  ASSUME NEW S \in SUBSET Nat, S # {}
  PROVE  \E i \in S : \A j \in S : i <= j
<1> DEFINE R == OpToRel(<, Nat)
<1>1. IsWellFoundedOn(R, Nat)
  BY NatLessThanWellFounded
<1>2. PICK i \in S : \A j \in S : ~(<<j, i>> \in R)
  <2> HIDE DEF R
  <2> QED BY <1>1, WFMin
<1>3. ASSUME NEW j \in S PROVE i <= j
  <2>1. i \in Nat /\ j \in Nat
    OBVIOUS
  <2>2. <<j, i>> \notin R
    BY <1>2
  <2>3. ~(j < i)
    BY <2>1, <2>2 DEF OpToRel
  <2> QED
    BY <2>1, <2>3
<1> QED
  BY <1>3

Pieces == [cmd : Commands, part : {"whole", "head"}, by : Clients]

\* getline takes the stream up to its first newline, or all of it.
LEMMA LineLengthFacts ==
  ASSUME stream \in Seq(Pieces), stream # <<>>
  PROVE  /\ LineLength \in 1 .. Len(stream)
         /\ Newlines # {} => LineLength \in Newlines
         /\ \A i \in Newlines : LineLength <= i
<1>1. Len(stream) \in Nat \ {0}
  OBVIOUS
<1>2. CASE Newlines = {}
  BY <1>1, <1>2 DEF LineLength
<1>3. CASE Newlines # {}
  <2>1. Newlines \in SUBSET Nat
    BY <1>1 DEF Newlines
  <2>2. \E i \in Newlines : \A j \in Newlines : i <= j
    BY <1>3, <2>1, LeastNumber
  <2>3. /\ LineLength \in Newlines
        /\ \A j \in Newlines : LineLength <= j
    BY <1>3, <2>2 DEF LineLength
  <2> QED
    BY <2>3 DEF Newlines
<1> QED
  BY <1>2, <1>3

LEMMA ParsedType ==
  ASSUME NEW ps \in Seq(Pieces)
  PROVE  Parsed(ps) \in Commands
<1>1. Unknown \in Commands
  BY DEF Unknown, Commands, Ops
<1>2. ASSUME Len(ps) = 1 PROVE ps[1].cmd \in Commands
  <2>1. ps[1] \in Pieces
    BY <1>2, ElementOfSeq
  <2> QED
    BY <2>1 DEF Pieces
<1> QED
  BY <1>1, <1>2 DEF Parsed

LEMMA SignedType ==
  ASSUME NEW m \in Messages, NEW c \in Clients
  PROVE  /\ Signed(m, c) \in Seq(Pieces)
         /\ Len(Signed(m, c)) = Len(m)
         /\ \A i \in 1 .. Len(m) :
              /\ Signed(m, c)[i].cmd = m[i].cmd
              /\ Signed(m, c)[i].part = m[i].part
              /\ Signed(m, c)[i].by = c
<1>1. m \in Seq([cmd : Commands, part : {"whole", "head"}])
  BY CommandAssumption
<1>2. ASSUME NEW i \in 1 .. Len(m)
      PROVE  [cmd |-> m[i].cmd, part |-> m[i].part, by |-> c] \in Pieces
  <2>1. m[i] \in [cmd : Commands, part : {"whole", "head"}]
    BY <1>1, ElementOfSeq
  <2> QED
    BY <2>1 DEF Pieces
<1>3. Len(m) \in Nat
  BY <1>1
<1> QED
  BY <1>2, <1>3 DEF Signed

LEMMA ReplyType ==
  ASSUME TypeOK, NEW k \in Socks, NEW val \in Int, NEW port \in Int,
         Reply(k, val, port)
  PROVE  toClient' \in [Clients -> Seq(Replies)]
<1>1. [op |-> line[k].cmd.op, val |-> val, port |-> port, by |-> line[k].by]
        \in Replies
  BY DEF TypeOK, Replies, Commands
<1>2. asker[k] \in Clients /\ toClient[asker[k]] \in Seq(Replies)
  BY DEF TypeOK
<1> QED
  BY <1>1, <1>2 DEF Reply, TypeOK

LEMMA LeavesType ==
  ASSUME TypeOK, NEW k \in Socks, Leaves(k)
  PROVE  /\ pc' \in [Socks -> {"idle", "getline", "execute", "number",
                               "return", "start", "bind", "reset", "query"}]
         /\ line' \in [Socks -> [cmd : Commands, by : Clients]]
<1>1. NoLine(k) \in [cmd : Commands, by : Clients]
  BY DEF NoLine, TypeOK, Unknown, Commands, Ops
<1> QED
  BY <1>1 DEF Leaves, Goto, TypeOK

-----------------------------------------------------------------------------
(***************************************************************************)
(* Type correctness.  That num_channels stays within its range rests on a  *)
(* count: each socket that was made has its number, or is about to get it. *)
(***************************************************************************)
Numbering == {k \in Socks : pc[k] = "number"}

\* What lines and the stream may hold of DATATYPE.
DataTypes ==
  /\ \A i \in 1 .. Len(stream) :
       stream[i].cmd.op = "DATATYPE" => stream[i].cmd.arg \in Nat \cup {NaN}
  /\ \A k \in Socks :
       line[k].cmd.op = "DATATYPE" => line[k].cmd.arg \in Nat \cup {NaN}

Counted ==
  /\ IsFiniteSet(Numbering)
  /\ made = numChannels + Cardinality(Numbering)

TypeInv == TypeOK /\ DataTypes /\ Counted

LEMMA TypeInit == Init => TypeInv
<1> SUFFICES ASSUME Init PROVE TypeInv
  OBVIOUS
<1>1. Unknown \in Commands /\ Unknown.op # "DATATYPE"
  BY DEF Unknown, Commands, Ops
<1>2. Numbering = {}
  BY DEF Init, Numbering
<1>3. Counted
  BY <1>2, FS_EmptySet DEF Counted, Init
<1>4. DataTypes
  BY <1>1 DEF DataTypes, Init
<1>5. asker \in [Socks -> Clients]
  <2>1. ASSUME NEW k \in Socks PROVE (CHOOSE c \in Clients : SockOf[c] = k) \in Clients
    BY CommandAssumption
  <2> QED
    BY <2>1 DEF Init
<1>14. line \in [Socks -> [cmd : Commands, by : Clients]]
  BY <1>1, <1>5 DEF Init
<1>6. 0 \in 0 .. MaxChannels /\ \A r \in Rooms : 0 \in 0 .. r
  BY CommandAssumption
<1>7. /\ uidMap \in [Uids -> DataSocks \cup {Null, Absent}]
      /\ sockUid \in [DataSocks -> DataSocks \cup {Absent}]
      /\ fresh \in [Socks -> DataSocks \cup {Null}]
      /\ rxStreams \in [StreamChans -> Seq(DataSocks \cup {Null})]
  BY DEF Init
<1>8. /\ rxOf \in [Uids -> Int] /\ txOf \in [Uids -> Int]
      /\ streamType \in [DataSocks -> Nat]
      /\ profile \in [Socks -> BOOLEAN]
      /\ param \in [RxParams \cup TxParams -> Int]
      /\ toServer \in [Clients -> Seq(Messages)]
      /\ toClient \in [Clients -> Seq(Replies)]
      /\ asked \in [Clients -> Nat] /\ twice \in [Clients -> Nat]
  BY DEF Init
<1>9. stream \in Seq(Pieces)
  <2>1. stream = <<>>
    BY DEF Init
  <2> QED
    BY <2>1
<1>13. proc \in {"running", "exited", "crashed", "terminated"} /\ eof \in BOOLEAN
       /\ mixed \in BOOLEAN /\ racing \in BOOLEAN /\ crossed \in BOOLEAN
  BY DEF Init
<1>10. /\ pc \in [Socks -> {"idle", "getline", "execute", "number", "return",
                           "start", "bind", "reset", "query"}]
      /\ \A k \in Socks : pc[k] = "idle"
  BY DEF Init
<1>11. /\ curChan \in [Socks -> Uids]
      /\ driver \in Drivers /\ device \in {"open", "closed"}
      /\ receiving \in BOOLEAN /\ receivers \in Nat
      /\ made = 0 /\ numChannels = 0 /\ room \in Rooms
  BY CommandAssumption DEF Init
<1>12. TypeOK
  BY <1>5, <1>6, <1>7, <1>8, <1>9, <1>10, <1>11, <1>13, <1>14
     DEF TypeOK, Pieces
<1> QED
  BY <1>3, <1>4, <1>12 DEF TypeInv

PCs == {"idle", "getline", "execute", "number", "return", "start", "bind",
        "reset", "query"}

\* The variables a command may change.
CommandTypes ==
  /\ fresh \in [Socks -> DataSocks \cup {Null}]
  /\ \A k \in Socks : pc[k] \in {"number", "return"} => fresh[k] \in DataSocks
  /\ curChan \in [Socks -> Uids]
  /\ profile \in [Socks -> BOOLEAN]
  /\ sockUid \in [DataSocks -> DataSocks \cup {Absent}]
  /\ streamType \in [DataSocks -> Nat]
  /\ uidMap \in [Uids -> DataSocks \cup {Null, Absent}]
  /\ rxOf \in [Uids -> Int] /\ txOf \in [Uids -> Int]
  /\ rxStreams \in [StreamChans -> Seq(DataSocks \cup {Null})]
  /\ device \in {"open", "closed"}
  /\ receiving \in BOOLEAN /\ crossed \in BOOLEAN
  /\ receivers \in Nat
  /\ param \in [RxParams \cup TxParams -> Int]
  /\ toClient \in [Clients -> Seq(Replies)]
  /\ twice \in [Clients -> Nat]

LEMMA CommandType ==
  ASSUME TypeInv, NEW k \in Socks, pc[k] # "number",
         NEW l \in PCs \ {"number"}, Goto(k, l), CommandTypes',
         UNCHANGED <<proc, textVars, asker, line, room, made, numChannels,
                     racing, driver, toServer, asked>>
  PROVE  TypeInv'
<1>1. TypeOK /\ DataTypes /\ Counted
  BY DEF TypeInv
<1>2. pc' \in [Socks -> PCs]
  BY <1>1 DEF Goto, TypeOK, PCs
<1>3. TypeOK'
  BY <1>1, <1>2 DEF TypeOK, CommandTypes, PCs
<1>4. DataTypes'
  BY <1>1 DEF DataTypes
<1>5. Numbering' = Numbering
  BY <1>1 DEF Numbering, Goto, TypeOK
<1>6. Counted'
  BY <1>1, <1>5 DEF Counted
<1> QED
  BY <1>3, <1>4, <1>6 DEF TypeInv

LEMMA CommandTypesNow == TypeInv => CommandTypes
BY DEF TypeInv, TypeOK, CommandTypes

LEMMA TypeEnds ==
  ASSUME TypeInv, NEW how \in {"exited", "crashed", "terminated"}, Ends(how)
  PROVE  TypeInv'
BY DEF Ends, TypeInv, TypeOK, DataTypes, Counted, Numbering

LEMMA TypeInsert ==
  ASSUME TypeInv, NEW k \in Socks, Insert(k) PROVE TypeInv'
<1>1. TypeOK /\ DataTypes /\ Counted
  BY DEF TypeInv
<1>2. PICK c \in Clients :
        /\ toServer[c] # <<>>
        /\ stream' = IF eof THEN stream
                     ELSE stream \o Signed(Head(toServer[c]), c)
        /\ asker' = [asker EXCEPT ![k] = c]
        /\ toServer' = [toServer EXCEPT ![c] = Tail(@)]
        /\ mixed' = (mixed \/ Meets(k, c))
  BY DEF Insert
<1>3. toServer[c] \in Seq(Messages) /\ Head(toServer[c]) \in Messages
  BY SMTT(30), <1>1, <1>2 DEF TypeOK
<1> DEFINE m == Head(toServer[c])
           s == Signed(m, c)
<1>4. /\ s \in Seq(Pieces) /\ Len(s) = Len(m)
      /\ \A i \in 1 .. Len(m) : s[i].cmd = m[i].cmd
  BY <1>3, SignedType
<1>5. stream \in Seq(Pieces)
  BY <1>1 DEF TypeOK, Pieces
<1>6. stream' \in Seq(Pieces)
  BY <1>2, <1>4, <1>5
<1>7. pc' \in [Socks -> PCs] /\ pc'[k] = "getline" /\ Numbering' = Numbering
  BY <1>1 DEF Insert, Goto, TypeOK, PCs, Numbering
<1>8. toServer' \in [Clients -> Seq(Messages)] /\ asker' \in [Socks -> Clients]
      /\ mixed' \in BOOLEAN
  BY SMTT(30), <1>1, <1>2, <1>3 DEF TypeOK
<1>9. \A j \in Socks : pc'[j] \in {"number", "return"} => fresh'[j] \in DataSocks
  BY <1>1 DEF Insert, Goto, TypeOK
<1>10. TypeOK'
  BY <1>1, <1>6, <1>7, <1>8, <1>9 DEF Insert, TypeOK, PCs, Pieces
<1>11. ASSUME NEW i \in 1 .. Len(stream'), stream'[i].cmd.op = "DATATYPE"
       PROVE  stream'[i].cmd.arg \in Nat \cup {NaN}
  <2> HIDE DEF s, m
  <2>1. CASE eof
    BY <1>1, <1>2, <1>11, <2>1 DEF DataTypes, s, m
  <2>2. CASE ~eof /\ i \in 1 .. Len(stream)
    BY <1>1, <1>2, <1>4, <1>5, <1>11, <2>2 DEF DataTypes, s, m
  <2>3. CASE ~eof /\ i \notin 1 .. Len(stream)
    <3>1. stream' = stream \o s
      BY <1>2, <2>3 DEF s, m
    <3>2. /\ i - Len(stream) \in 1 .. Len(m)
          /\ stream'[i] = s[i - Len(stream)]
      BY <1>4, <1>5, <2>3, <3>1
    <3>3. /\ m[i - Len(stream)].cmd.op = "DATATYPE"
             => m[i - Len(stream)].cmd.arg \in Nat \cup {NaN}
      BY <1>3, <3>2, CommandAssumption DEF m
    <3> QED
      BY <1>4, <1>11, <3>2, <3>3
  <2> QED
    BY <2>1, <2>2, <2>3
<1>12. DataTypes' /\ Counted'
  BY <1>1, <1>7, <1>11 DEF DataTypes, Counted, Insert
<1> QED
  BY <1>10, <1>12 DEF TypeInv

LEMMA TypeGetLine ==
  ASSUME TypeInv, NEW k \in Socks, GetLine(k) PROVE TypeInv'
<1>1. TypeOK /\ DataTypes /\ Counted
  BY DEF TypeInv
<1>2. stream \in Seq(Pieces) /\ stream # <<>>
  BY <1>1 DEF TypeOK, Pieces, GetLine
<1>3. LineLength \in 1 .. Len(stream)
  BY <1>2, LineLengthFacts
<1> DEFINE ps == SubSeq(stream, 1, LineLength)
           rest == SubSeq(stream, LineLength + 1, Len(stream))
<1>4. /\ ps \in Seq(Pieces) /\ Len(ps) = LineLength
      /\ Len(ps) = 1 => ps[1] = stream[1]
      /\ rest \in Seq(Pieces)
      /\ \A i \in 1 .. Len(rest) : rest[i] = stream[LineLength + i]
                                   /\ LineLength + i \in 1 .. Len(stream)
  BY <1>2, <1>3
<1>5. Parsed(ps) \in Commands
  BY <1>4, ParsedType
<1>6. stream[LineLength] \in Pieces /\ stream[LineLength].by \in Clients
  <2>1. stream[LineLength] \in Pieces
    BY <1>2, <1>3, ElementOfSeq
  <2> QED
    BY <2>1 DEF Pieces
<1>7. Parsed(ps).op = "DATATYPE" => Parsed(ps).arg \in Nat \cup {NaN}
  <2>1. Unknown.op # "DATATYPE"
    BY DEF Unknown
  <2>2. 1 \in 1 .. Len(stream)
    BY <1>2
  <2> QED
    BY <1>1, <1>4, <2>1, <2>2 DEF Parsed, DataTypes
<1>8. /\ line' = [line EXCEPT ![k] = [cmd |-> Parsed(ps), by |-> stream[LineLength].by]]
      /\ stream' = rest
      /\ Goto(k, "execute")
      /\ UNCHANGED <<proc, mixed, asker, fresh, curChan, profile, registryVars,
                     deviceVars, wireVars, askVars>>
      /\ eof' \in BOOLEAN /\ pc[k] = "getline"
  BY DEF GetLine
<1> HIDE DEF ps, rest
<1>9. line' \in [Socks -> [cmd : Commands, by : Clients]]
  BY <1>1, <1>5, <1>6, <1>8 DEF TypeOK
<1>10. pc' \in [Socks -> PCs] /\ Numbering' = Numbering
  BY <1>1, <1>8 DEF Goto, TypeOK, PCs, Numbering
<1>11. \A j \in Socks : pc'[j] \in {"number", "return"} => fresh'[j] \in DataSocks
  BY <1>1, <1>8 DEF Goto, TypeOK
<1>12. TypeOK'
  BY <1>1, <1>4, <1>8, <1>9, <1>10, <1>11 DEF TypeOK, PCs, Pieces
<1>13. DataTypes'
  <2>1. \A i \in 1 .. Len(stream') :
          stream'[i].cmd.op = "DATATYPE" => stream'[i].cmd.arg \in Nat \cup {NaN}
    BY <1>1, <1>4, <1>8 DEF DataTypes
  <2>2. \A j \in Socks :
          line'[j].cmd.op = "DATATYPE" => line'[j].cmd.arg \in Nat \cup {NaN}
    BY <1>1, <1>7, <1>8 DEF DataTypes, TypeOK
  <2> QED
    BY <2>1, <2>2 DEF DataTypes
<1>14. Counted'
  BY <1>1, <1>8, <1>10 DEF Counted
<1> QED
  BY <1>12, <1>13, <1>14 DEF TypeInv

\* A handler that returns.
LEMMA TypeLeaves ==
  ASSUME TypeInv, NEW k \in Socks, pc[k] # "number", Leaves(k),
         eof' \in BOOLEAN, toClient' \in [Clients -> Seq(Replies)],
         UNCHANGED <<proc, stream, mixed, asker, fresh, curChan, profile,
                     registryVars, deviceVars, toServer, askVars>>
  PROVE  TypeInv'
<1>1. TypeOK /\ DataTypes /\ Counted
  BY DEF TypeInv
<1>2. /\ pc' \in [Socks -> PCs]
      /\ line' \in [Socks -> [cmd : Commands, by : Clients]]
  BY <1>1, LeavesType DEF PCs
<1>3. \A j \in Socks : pc'[j] \in {"number", "return"} => fresh'[j] \in DataSocks
  BY <1>1 DEF Leaves, Goto, TypeOK
<1>4. TypeOK'
  BY <1>1, <1>2, <1>3 DEF TypeOK, PCs
<1>5. Numbering' = Numbering
  BY <1>1 DEF Leaves, Goto, TypeOK, Numbering
<1>6. DataTypes'
  BY <1>1 DEF DataTypes, Leaves, NoLine, Unknown, TypeOK
<1> QED
  BY <1>1, <1>4, <1>5, <1>6 DEF TypeInv, Counted

LEMMA Numbers ==
  TypeOK => /\ made \in Nat /\ numChannels \in Nat /\ MaxChannels \in Nat
            /\ room \in Nat /\ made <= room /\ room <= MaxChannels
            /\ made <= MaxChannels /\ numChannels <= MaxChannels
<1> SUFFICES ASSUME TypeOK
             PROVE  /\ made \in Nat /\ numChannels \in Nat /\ MaxChannels \in Nat
                    /\ room \in Nat /\ made <= room /\ room <= MaxChannels
                    /\ made <= MaxChannels /\ numChannels <= MaxChannels
  OBVIOUS
<1>1. room \in Rooms /\ made \in 0 .. room /\ numChannels \in 0 .. MaxChannels
  BY Zenon DEF TypeOK
<1>2. MaxChannels \in Nat /\ Rooms \subseteq 0 .. MaxChannels
  BY Zenon, CommandAssumption
<1> QED
  BY <1>1, <1>2

LEMMA ArgType == TypeOK => \A k \in Socks : Arg(k) \in Int /\ line[k].cmd.op \in Ops
BY DEF TypeOK, Arg, Commands

LEMMA TypeNewChannel ==
  ASSUME TypeInv, NEW k \in Socks, NewChannel(k) PROVE TypeInv'
<1>1. TypeOK /\ DataTypes /\ Counted
  BY DEF TypeInv
<1>2. /\ pc[k] = "execute" /\ made \in Nat /\ made < room /\ room \in Nat
      /\ room' = room /\ made < MaxChannels
      /\ made' = made + 1 /\ numChannels \in Nat /\ MaxChannels \in Nat
  BY <1>1, Numbers DEF NewChannel, At
<1>3. Numbering' = Numbering \cup {k} /\ k \notin Numbering
  BY <1>1, <1>2 DEF Numbering, NewChannel, Goto, TypeOK
<1>4. Cardinality(Numbering) \in Nat
  BY <1>1, FS_CardinalityType DEF Counted
<1>5. Counted'
  <2>1. /\ IsFiniteSet(Numbering')
        /\ Cardinality(Numbering') = Cardinality(Numbering) + 1
    BY <1>1, <1>3, FS_AddElement DEF Counted
  <2> QED
    BY <1>1, <1>2, <1>4, <2>1 DEF Counted, NewChannel
<1>6. numChannels \in DataSocks /\ made \in DataSocks
  BY <1>1, <1>2, <1>4 DEF Counted, DataSocks
<1>7. /\ fresh' \in [Socks -> DataSocks \cup {Null}] /\ fresh'[k] \in DataSocks
      /\ uidMap' \in [Uids -> DataSocks \cup {Null, Absent}]
      /\ rxOf' \in [Uids -> Int] /\ txOf' \in [Uids -> Int]
      /\ made' \in 0 .. room' /\ racing' \in BOOLEAN
  <2>1. fresh' \in [Socks -> DataSocks \cup {Null}] /\ fresh'[k] \in DataSocks
    BY <1>1, <1>6 DEF NewChannel, TypeOK
  <2>2. uidMap' \in [Uids -> DataSocks \cup {Null, Absent}]
    BY <1>1, <1>6 DEF NewChannel, TypeOK
  <2>3. rxOf' \in [Uids -> Int] /\ txOf' \in [Uids -> Int]
    <3> DEFINE n == -1
    <3>1. rxOf \in [Uids -> Int] /\ txOf \in [Uids -> Int] /\ n \in Int
      BY <1>1 DEF TypeOK
    <3>2. /\ rxOf' = [rxOf EXCEPT ![numChannels] = n]
          /\ txOf' = [txOf EXCEPT ![numChannels] = n]
      BY DEF NewChannel
    <3> HIDE DEF n
    <3> QED
      BY <3>1, <3>2
  <2>4. made' \in 0 .. room' /\ racing' \in BOOLEAN
    BY <1>1, <1>2 DEF NewChannel, TypeOK
  <2> QED
    BY <2>1, <2>2, <2>3, <2>4
<1>8. pc' \in [Socks -> PCs]
  BY <1>1 DEF NewChannel, Goto, TypeOK, PCs
<1>9. \A j \in Socks : pc'[j] \in {"number", "return"} => fresh'[j] \in DataSocks
  BY <1>1, <1>7 DEF NewChannel, Goto, TypeOK
<1>10. TypeOK'
  BY <1>1, <1>7, <1>8, <1>9 DEF NewChannel, TypeOK, PCs
<1>11. DataTypes'
  BY <1>1 DEF DataTypes, NewChannel
<1> QED
  BY <1>5, <1>10, <1>11 DEF TypeInv

LEMMA TypeNumber ==
  ASSUME TypeInv, NEW k \in Socks, Number(k) PROVE TypeInv'
<1>1. TypeOK /\ DataTypes /\ Counted
  BY DEF TypeInv
<1>2. numChannels \in Nat /\ made \in Nat /\ MaxChannels \in Nat /\ made <= MaxChannels
  BY <1>1, Numbers
<1>3. Numbering' = Numbering \ {k} /\ k \in Numbering
  BY <1>1 DEF Numbering, Number, Goto, TypeOK
<1>4. Cardinality(Numbering) \in Nat
  BY <1>1, FS_CardinalityType DEF Counted
<1>5. /\ IsFiniteSet(Numbering')
      /\ Cardinality(Numbering') = Cardinality(Numbering) - 1
  BY <1>1, <1>3, FS_RemoveElement DEF Counted
<1>6. Cardinality(Numbering') \in Nat
  BY <1>5, FS_CardinalityType
<1>7. Counted'
  BY <1>1, <1>2, <1>4, <1>5 DEF Counted, Number
<1>8. numChannels \in DataSocks /\ numChannels' \in 0 .. MaxChannels
  BY <1>1, <1>2, <1>4, <1>5, <1>6 DEF Counted, DataSocks, Number
<1>9. sockUid' \in [DataSocks -> DataSocks \cup {Absent}]
  BY <1>1, <1>8 DEF Number, TypeOK
<1>10. pc' \in [Socks -> PCs]
  BY <1>1 DEF Number, Goto, TypeOK, PCs
<1>11. \A j \in Socks : pc'[j] \in {"number", "return"} => fresh'[j] \in DataSocks
  BY <1>1 DEF Number, Goto, TypeOK
<1>12. TypeOK'
  BY <1>1, <1>8, <1>9, <1>10, <1>11 DEF Number, TypeOK, PCs
<1>13. DataTypes'
  BY <1>1 DEF DataTypes, Number
<1> QED
  BY <1>7, <1>12, <1>13 DEF TypeInv

\* The commands that leave made and num_channels alone.
LEMMA TypeReturn ==
  ASSUME TypeInv, NEW k \in Socks, Return(k) PROVE TypeInv'
<1>1. TypeOK /\ CommandTypes
  BY CommandTypesNow DEF TypeInv
<1>2. fresh[k] \in DataSocks /\ fresh[k] \in Int /\ numChannels - 1 \in Uids
      /\ numChannels - 1 \in Int
  <2>1. fresh[k] \in DataSocks /\ fresh[k] \in Int
    BY <1>1 DEF TypeOK, Return, DataSocks
  <2>2. numChannels \in Nat /\ MaxChannels \in Nat /\ numChannels <= MaxChannels
    BY <1>1, Numbers
  <2> QED
    BY <2>1, <2>2 DEF Uids
<1>3. toClient' \in [Clients -> Seq(Replies)]
  BY <1>1, <1>2, ReplyType DEF Return
<1>4. /\ curChan' \in [Socks -> Uids]
      /\ fresh' \in [Socks -> DataSocks \cup {Null}]
      /\ \A j \in Socks : pc'[j] \in {"number", "return"} => fresh'[j] \in DataSocks
  BY <1>1, <1>2 DEF TypeOK, Return, Goto
<1>5. CommandTypes'
  BY <1>1, <1>3, <1>4 DEF CommandTypes, Return
<1> QED
  BY <1>5, CommandType DEF Return, PCs

LEMMA TypeChannel ==
  ASSUME TypeInv, NEW k \in Socks, Channel(k) PROVE TypeInv'
<1>1. TypeOK /\ CommandTypes
  BY CommandTypesNow DEF TypeInv
<1>2. Arg(k) \in Int /\ Arg(k) < numChannels
  <2>1. Arg(k) \in Int /\ numChannels \in Int
    BY <1>1, ArgType, Numbers
  <2>2. ~(Arg(k) >= numChannels)
    BY DEF Channel, At, Throws
  <2> QED
    BY <2>1, <2>2
<1>3. (IF Arg(k) < 0 THEN -1 ELSE Arg(k)) \in Uids
  <2>1. numChannels \in 0 .. MaxChannels /\ MaxChannels \in Nat
    BY <1>1, CommandAssumption DEF TypeOK
  <2> QED
    BY <1>2, <2>1 DEF Uids
<1>4. /\ curChan' \in [Socks -> Uids]
      /\ \A j \in Socks : pc'[j] \in {"number", "return"} => fresh'[j] \in DataSocks
  BY <1>1, <1>3 DEF TypeOK, Channel, Goto
<1>5. CommandTypes'
  BY <1>1, <1>4 DEF CommandTypes, Channel
<1> QED
  BY <1>5, CommandType DEF Channel, At, PCs

LEMMA TypeMoves ==
  ASSUME TypeInv, NEW k \in Socks, Refuse(k) \/ OpenRX(k) \/ StartRX(k)
  PROVE  TypeInv'
<1>1. TypeOK /\ CommandTypes
  BY CommandTypesNow DEF TypeInv
<1>2. \A j \in Socks : pc'[j] \in {"number", "return"} => fresh'[j] \in DataSocks
  BY <1>1 DEF TypeOK, Refuse, OpenRX, StartRX, Goto
<1>3. CASE Refuse(k)
  <2>1. CommandTypes'
    BY <1>1, <1>2, <1>3 DEF CommandTypes, Refuse
  <2> QED
    BY <1>3, <2>1, CommandType DEF Refuse, PCs
<1>4. CASE OpenRX(k)
  <2>1. CommandTypes'
    BY <1>1, <1>2, <1>4 DEF CommandTypes, OpenRX
  <2> QED
    BY <1>4, <2>1, CommandType DEF OpenRX, At, PCs
<1>5. CASE StartRX(k)
  <2>1. CommandTypes'
    BY <1>1, <1>2, <1>5 DEF CommandTypes, StartRX
  <2> QED
    BY <1>5, <2>1, CommandType DEF StartRX, PCs
<1> QED
  BY <1>3, <1>4, <1>5

LEMMA EntryType ==
  ASSUME TypeOK, NEW u \in Uids
  PROVE  Entry(u) \in DataSocks \cup {Null}
BY DEF TypeOK, Entry

LEMMA UidIsNumber == \A u \in Uids : u \in Int
BY CommandAssumption DEF Uids

LEMMA TypeBindRX ==
  ASSUME TypeInv, NEW k \in Socks, BindRX(k) PROVE TypeInv'
<1> DEFINE u == curChan[k]
<1>1. TypeOK /\ CommandTypes
  BY CommandTypesNow DEF TypeInv
<1>2. u \in Uids /\ Entry(u) \in DataSocks \cup {Null} /\ Arg(k) \in Int
      /\ u \in Int
  BY <1>1, ArgType, EntryType, UidIsNumber DEF TypeOK
<1>3. toClient' \in [Clients -> Seq(Replies)]
  BY <1>1, <1>2, ReplyType DEF BindRX
<1>4. uidMap' \in [Uids -> DataSocks \cup {Null, Absent}] /\ rxOf' \in [Uids -> Int]
  BY <1>1, <1>2 DEF BindRX, TypeOK
<1>5. rxStreams' \in [StreamChans -> Seq(DataSocks \cup {Null})]
  <2> DEFINE T == DataSocks \cup {Null}
             e == Entry(u)
             a == Arg(k)
  <2>1. rxStreams \in [StreamChans -> Seq(T)] /\ e \in T
    BY <1>1, <1>2 DEF TypeOK
  <2>2. rxStreams' = [rxStreams EXCEPT ![a] = Append(@, e)]
    BY DEF BindRX
  <2> HIDE DEF T, e, a
  <2>3. ASSUME a \in StreamChans PROVE Append(rxStreams[a], e) \in Seq(T)
    BY <2>1, <2>3
  <2>4. rxStreams' \in [StreamChans -> Seq(T)]
    BY <2>1, <2>2, <2>3
  <2> QED
    BY <2>4 DEF T
<1>6. \A j \in Socks : pc'[j] \in {"number", "return"} => fresh'[j] \in DataSocks
  BY <1>1 DEF TypeOK, BindRX, Goto
<1>7. CommandTypes'
  BY <1>1, <1>3, <1>4, <1>5, <1>6 DEF CommandTypes, BindRX
<1> QED
  BY <1>7, CommandType DEF BindRX, PCs

LEMMA TypeBindTX ==
  ASSUME TypeInv, NEW k \in Socks, BindTX(k) PROVE TypeInv'
<1> DEFINE u == curChan[k]
<1>1. TypeOK /\ CommandTypes
  BY CommandTypesNow DEF TypeInv
<1>2. u \in Uids /\ Entry(u) \in DataSocks \cup {Null} /\ Arg(k) \in Int
      /\ u \in Int
  BY <1>1, ArgType, EntryType, UidIsNumber DEF TypeOK
<1>3. toClient' \in [Clients -> Seq(Replies)]
  BY <1>1, <1>2, ReplyType DEF BindTX
<1>4. uidMap' \in [Uids -> DataSocks \cup {Null, Absent}] /\ txOf' \in [Uids -> Int]
  BY <1>1, <1>2 DEF BindTX, TypeOK
<1>5. \A j \in Socks : pc'[j] \in {"number", "return"} => fresh'[j] \in DataSocks
  BY <1>1 DEF TypeOK, BindTX, Goto
<1>6. CommandTypes'
  BY <1>1, <1>3, <1>4, <1>5 DEF CommandTypes, BindTX
<1> QED
  BY <1>6, CommandType DEF BindTX, At, PCs

LEMMA TypeDataType ==
  ASSUME TypeInv, NEW k \in Socks, DataType(k) PROVE TypeInv'
<1>1. TypeOK /\ CommandTypes /\ DataTypes
  BY CommandTypesNow DEF TypeInv
<1>2. Arg(k) \in Nat /\ Arg(k) \in Int
  BY <1>1 DEF DataTypes, DataType, At, Throws, Arg
<1>3. toClient' \in [Clients -> Seq(Replies)]
  BY <1>1, <1>2, ReplyType DEF DataType
<1>4. streamType' \in [DataSocks -> Nat]
  BY <1>1, <1>2 DEF DataType, TypeOK
<1>5. \A j \in Socks : pc'[j] \in {"number", "return"} => fresh'[j] \in DataSocks
  BY <1>1 DEF TypeOK, DataType, Goto
<1>6. CommandTypes'
  BY <1>1, <1>3, <1>4, <1>5 DEF CommandTypes, DataType
<1> QED
  BY <1>6, CommandType DEF DataType, At, PCs

LEMMA SlotType == \A op \in RxParams \cup TxParams : Slot(op) \in RxParams \cup TxParams
BY DEF Slot, RxParams, TxParams

LEMMA TypeDevice ==
  ASSUME TypeInv, NEW k \in Socks,
         SetParameter(k) \/ Disconnect(k) \/ Reset(k) \/ Connect(k)
  PROVE  TypeInv'
<1>1. TypeOK /\ CommandTypes
  BY CommandTypesNow DEF TypeInv
<1>2. \A j \in Socks : pc'[j] \in {"number", "return"} => fresh'[j] \in DataSocks
  BY <1>1 DEF TypeOK, SetParameter, Disconnect, Reset, Connect, Goto
<1>3. CASE SetParameter(k)
  <2>1. Arg(k) \in Int /\ Slot(line[k].cmd.op) \in RxParams \cup TxParams
    BY <1>1, <1>3, ArgType, SlotType DEF SetParameter
  <2>2. param' \in [RxParams \cup TxParams -> Int]
    BY <1>1, <1>3, <2>1 DEF SetParameter, TypeOK
  <2>3. CommandTypes'
    BY <1>1, <1>2, <1>3, <2>2 DEF CommandTypes, SetParameter
  <2> QED
    BY <1>3, <2>3, CommandType DEF SetParameter, PCs
<1>4. CASE Disconnect(k)
  <2>1. CommandTypes'
    BY <1>1, <1>2, <1>4 DEF CommandTypes, Disconnect
  <2> QED
    BY <1>4, <2>1, CommandType DEF Disconnect, At, PCs
<1>6. CASE Reset(k)
  <2>1. CommandTypes'
    BY <1>1, <1>2, <1>6 DEF CommandTypes, Reset
  <2> QED
    BY <1>6, <2>1, CommandType DEF Reset, PCs
<1>5. CASE Connect(k)
  <2>1. param' \in [RxParams \cup TxParams -> Int]
    BY <1>1, <1>5 DEF Connect, TypeOK
  <2>2. CommandTypes'
    BY <1>1, <1>2, <1>5, <2>1 DEF CommandTypes, Connect
  <2> QED
    BY <1>5, <2>2, CommandType DEF Connect, At, PCs
<1> QED
  BY <1>3, <1>4, <1>5, <1>6

LEMMA TypeProfile ==
  ASSUME TypeInv, NEW k \in Socks, LoadProfile(k) \/ AskProfile(k)
  PROVE  TypeInv'
<1>1. TypeOK /\ CommandTypes
  BY CommandTypesNow DEF TypeInv
<1>2. \A j \in Socks : pc'[j] \in {"number", "return"} => fresh'[j] \in DataSocks
  BY <1>1 DEF TypeOK, LoadProfile, AskProfile, Goto
<1>3. CASE LoadProfile(k)
  <2>1. profile' \in [Socks -> BOOLEAN]
    BY <1>1, <1>3 DEF LoadProfile, TypeOK
  <2>2. CommandTypes'
    BY <1>1, <1>2, <1>3, <2>1 DEF CommandTypes, LoadProfile
  <2> QED
    BY <1>3, <2>2, CommandType DEF LoadProfile, At, PCs
<1>4. CASE AskProfile(k)
  <2>1. toClient' \in [Clients -> Seq(Replies)]
    BY <1>1, <1>4, ArgType, ReplyType DEF AskProfile
  <2>2. twice' \in [Clients -> Nat]
    BY SMTT(30), <1>1, <1>4 DEF AskProfile, TypeOK
  <2>3. CommandTypes'
    BY <1>1, <1>2, <1>4, <2>1, <2>2 DEF CommandTypes, AskProfile
  <2> QED
    BY <1>4, <2>3, CommandType DEF AskProfile, PCs
<1> QED
  BY <1>3, <1>4

LEMMA TypeReadBack ==
  ASSUME TypeInv, NEW k \in Socks, Query(k) \/ NoQuery(k) \/ GetLineFails(k)
  PROVE  TypeInv'
<1>1. TypeOK
  BY DEF TypeInv
<1>2. toClient' \in [Clients -> Seq(Replies)]
  <2>1. CASE Query(k)
    <3>1. param[Slot(line[k].cmd.op)] \in Int
      BY <1>1, <2>1, SlotType DEF Query, Queried, TypeOK
    <3> QED
      BY <1>1, <2>1, <3>1, ReplyType DEF Query
  <2>2. CASE NoQuery(k) \/ GetLineFails(k)
    BY <1>1, <2>2 DEF NoQuery, GetLineFails, TypeOK
  <2> QED
    BY <2>1, <2>2
<1>3. eof' \in BOOLEAN /\ pc[k] # "number" /\ Leaves(k)
      /\ UNCHANGED <<proc, stream, mixed, asker, fresh, curChan, profile,
                     registryVars, deviceVars, toServer, askVars>>
  BY <1>1 DEF Query, NoQuery, GetLineFails, TypeOK
<1> QED
  BY <1>2, <1>3, TypeLeaves

\* The steps that end the process leave the rest as it is.
Dies(k) == \/ NullDevice(k) \/ NullSocket(k) \/ NoDescriptor(k) \/ StartNull(k)
           \/ StartExits(k) \/ SetExits(k) \/ SetThrows(k) \/ QueryThrows(k)
           \/ QueryNull(k)

LEMMA DeathEnds ==
  ASSUME NEW k \in Socks, Dies(k) \/ Receive
  PROVE  \E how \in {"exited", "crashed", "terminated"} : Ends(how)
BY DEF Dies, NullDevice, NullSocket, NoDescriptor, StartNull, StartExits,
       SetExits, SetThrows, QueryThrows, QueryNull, Receive

LEMMA TypeServer == TypeInv /\ Server => TypeInv'
<1> SUFFICES ASSUME TypeInv, Server PROVE TypeInv'
  OBVIOUS
<1>1. ASSUME NEW k \in Socks, Take(k) PROVE TypeInv'
  BY <1>1, TypeInsert, TypeGetLine, TypeReadBack DEF Take
<1>2. ASSUME NEW k \in Socks, Dies(k) \/ Receive PROVE TypeInv'
  BY <1>2, DeathEnds, TypeEnds
<1>3. ASSUME NEW k \in Socks, Execute(k) PROVE TypeInv'
  BY <1>2, <1>3, TypeNewChannel, TypeNumber, TypeReturn, TypeChannel, TypeMoves,
     TypeBindRX, TypeBindTX, TypeDataType, TypeDevice, TypeProfile
     DEF Execute, Dies
<1>4. ASSUME NEW k \in Socks, ReadBack(k) PROVE TypeInv'
  BY <1>2, <1>4, TypeReadBack DEF ReadBack, Dies
<1>5. CASE Receive
  BY <1>5, TypeEnds DEF Receive
<1> QED
  BY <1>1, <1>3, <1>4, <1>5 DEF Server

LEMMA TypeSend ==
  ASSUME TypeInv, NEW c \in Clients, ClientSend(c) PROVE TypeInv'
<1>1. TypeOK /\ DataTypes /\ Counted
  BY DEF TypeInv
<1>2. PICK m \in Messages : toServer' = [toServer EXCEPT ![c] = Append(@, m)]
  BY DEF ClientSend
<1>3. toServer' \in [Clients -> Seq(Messages)] /\ asked' \in [Clients -> Nat]
  BY <1>1, <1>2 DEF TypeOK, ClientSend
<1>4. TypeOK'
  BY <1>1, <1>3 DEF TypeOK, ClientSend, serverVars
<1>5. DataTypes' /\ Counted'
  BY <1>1 DEF DataTypes, Counted, Numbering, ClientSend, serverVars
<1> QED
  BY <1>4, <1>5 DEF TypeInv

LEMMA TypeStep == TypeInv /\ [Next]_vars => TypeInv'
<1> SUFFICES ASSUME TypeInv, [Next]_vars PROVE TypeInv'
  OBVIOUS
<1>1. CASE UNCHANGED vars
  BY <1>1 DEF vars, serverVars, TypeInv, TypeOK, DataTypes, Counted, Numbering
<1> QED
  BY <1>1, TypeServer, TypeSend DEF Next

\* Every variable keeps its type: no more channels are numbered than there are
\* data sockets, a handler that numbers or returns a channel has its socket, and
\* cur_channel is never a number that no channel has had
\* (genericSDRInterface.cc, addChannel; portalCommandSocket.cc).
THEOREM TypeCorrect == Spec => []TypeOK
<1>1. TypeInv => TypeOK
  BY DEF TypeInv
<1> QED
  BY <1>1, TypeInit, TypeStep, PTL DEF Spec

-----------------------------------------------------------------------------
(***************************************************************************)
(* No message is answered twice, with any number of command sockets.  What *)
(* the count rests on: a handler works for a client of its own socket, and *)
(* only the two commands of several steps are ever between them.           *)
(***************************************************************************)
HandlerInv ==
  \A k \in Socks :
    /\ pc[k] # "idle" => SockOf[asker[k]] = k
    /\ pc[k] \in {"number", "return"} => line[k].cmd.op = "NEWCHANNEL"
    /\ pc[k] \in {"start", "bind"} => line[k].cmd.op = "RXCHANNEL"
    /\ pc[k] = "reset" => line[k].cmd.op = "SDR_DISCONNECT" /\ driver = "uhd"

LEMMA HandlerGoto ==
  ASSUME TypeOK, HandlerInv, NEW k \in Socks, NEW l \in PCs, Goto(k, l),
         UNCHANGED <<asker, line, driver>>, pc[k] # "idle",
         l \in {"number", "return"} => line[k].cmd.op = "NEWCHANNEL",
         l \in {"start", "bind"} => line[k].cmd.op = "RXCHANNEL",
         l = "reset" => line[k].cmd.op = "SDR_DISCONNECT" /\ driver = "uhd"
  PROVE  HandlerInv'
BY DEF HandlerInv, Goto, TypeOK

LEMMA HandlerLeaves ==
  ASSUME TypeOK, HandlerInv, NEW k \in Socks, Leaves(k),
         UNCHANGED <<asker, driver>>
  PROVE  HandlerInv'
BY DEF HandlerInv, Leaves, Goto, TypeOK

LEMMA HandlerServer == TypeOK /\ HandlerInv /\ Server => HandlerInv'
<1> SUFFICES ASSUME TypeOK, HandlerInv, Server PROVE HandlerInv'
  OBVIOUS
<1>1. ASSUME NEW k \in Socks, Dies(k) \/ Receive PROVE HandlerInv'
  BY <1>1, DeathEnds DEF Ends, HandlerInv
<1>2. ASSUME NEW k \in Socks, Insert(k) PROVE HandlerInv'
  BY <1>2 DEF Insert, HandlerInv, Goto, TypeOK
<1>3. ASSUME NEW k \in Socks, GetLine(k) PROVE HandlerInv'
  BY <1>3 DEF GetLine, HandlerInv, Goto, TypeOK
<1>4. ASSUME NEW k \in Socks, GetLineFails(k) \/ Query(k) \/ NoQuery(k)
      PROVE  HandlerInv'
  BY <1>4, HandlerLeaves DEF GetLineFails, Query, NoQuery
<1>5. ASSUME NEW k \in Socks, NewChannel(k) \/ Number(k) PROVE HandlerInv'
  BY <1>5, HandlerGoto DEF NewChannel, Number, At, PCs, HandlerInv
<1>6. ASSUME NEW k \in Socks, OpenRX(k) \/ StartRX(k) PROVE HandlerInv'
  BY <1>6, HandlerGoto DEF OpenRX, StartRX, At, PCs, HandlerInv
<1>7. ASSUME NEW k \in Socks,
             \/ Refuse(k) \/ Return(k) \/ Channel(k) \/ BindRX(k) \/ BindTX(k)
             \/ DataType(k) \/ SetParameter(k) \/ Reset(k) \/ Connect(k)
             \/ LoadProfile(k) \/ AskProfile(k)
      PROVE  HandlerInv'
  <2>1. pc[k] # "idle" /\ Goto(k, "query") /\ UNCHANGED <<asker, line, driver>>
    BY <1>7 DEF Refuse, Return, Channel, BindRX, BindTX, DataType, SetParameter,
       Reset, Connect, LoadProfile, AskProfile, At
  <2> QED
    BY <2>1, HandlerGoto DEF PCs
<1>10. ASSUME NEW k \in Socks, Disconnect(k) PROVE HandlerInv'
  BY <1>10, HandlerGoto DEF Disconnect, At, PCs
<1>8. ASSUME Receive PROVE HandlerInv'
  BY <1>8 DEF Receive, Ends, HandlerInv
<1>9. ASSUME NEW k \in Socks, Take(k) \/ Execute(k) \/ ReadBack(k)
      PROVE  HandlerInv'
  BY <1>1, <1>2, <1>3, <1>4, <1>5, <1>6, <1>7, <1>9, <1>10
     DEF Take, Execute, ReadBack, Dies
<1> QED
  BY <1>8, <1>9 DEF Server

Due(c) == IF asker[SockOf[c]] = c /\ ReplyDue(SockOf[c]) THEN 1 ELSE 0

\* A step that answers nothing, and owes no more than before.
LEMMA OnceSilent ==
  ASSUME TypeOK, AnsweredOnce, NEW k \in Socks,
         UNCHANGED <<asker, toClient, toServer, askVars>>,
         \A j \in Socks \ {k} : pc'[j] = pc[j] /\ line'[j] = line[j],
         ReplyDue(k)' => ReplyDue(k)
  PROVE  AnsweredOnce'
<1> SUFFICES ASSUME NEW c \in Clients
             PROVE  Len(toClient[c]) + Len(toServer[c]) + Due(c)'
                      <= asked[c] + twice[c]
  BY DEF AnsweredOnce, Due
<1> DEFINE n == Len(toClient[c])
           m == Len(toServer[c])
           d == Due(c)
           e == Due(c)'
           a == asked[c]
           t == twice[c]
<1>1. SockOf[c] \in Socks
  BY CommandAssumption
<1>2. e <= d
  BY <1>1 DEF Due, ReplyDue, Queried
<1>3. n + m + d <= a + t
  BY DEF AnsweredOnce, Due
<1>4. n \in Nat /\ m \in Nat /\ d \in Nat /\ e \in Nat /\ a \in Nat /\ t \in Nat
  BY SMTT(30) DEF TypeOK, Due
<1>5. n + m + e <= a + t
  <2> HIDE DEF n, m, d, e, a, t
  <2> QED
    BY <1>2, <1>3, <1>4
<1> QED
  BY <1>5

\* A step that answers what was owed.
LEMMA OnceReplies ==
  ASSUME TypeOK, AnsweredOnce, NEW k \in Socks, SockOf[asker[k]] = k,
         NEW val, NEW port, Reply(k, val, port),
         UNCHANGED <<asker, toServer, asked>>,
         \A j \in Socks \ {k} : pc'[j] = pc[j] /\ line'[j] = line[j],
         ReplyDue(k),
         \/ twice' = twice /\ ~ReplyDue(k)'
         \/ twice' = [twice EXCEPT ![asker[k]] = @ + 1]
  PROVE  AnsweredOnce'
<1> SUFFICES ASSUME NEW c \in Clients
             PROVE  Len(toClient'[c]) + Len(toServer[c]) + Due(c)'
                      <= asked[c] + twice'[c]
  BY DEF AnsweredOnce, Due
<1> DEFINE n == Len(toClient[c])
           o == Len(toClient'[c])
           m == Len(toServer[c])
           d == Due(c)
           e == Due(c)'
           a == asked[c]
           t == twice[c]
           u == twice'[c]
<1>1. SockOf[c] \in Socks
  BY CommandAssumption
<1>2. n \in Nat /\ m \in Nat /\ a \in Nat /\ t \in Nat
  BY SMTT(30) DEF TypeOK
<1>3. n + m + d <= a + t
  BY DEF AnsweredOnce, Due
<1>4. e \in {0, 1}
  BY DEF Due
<1>5. CASE c = asker[k]
  <2>1. o = n + 1
    BY <1>5 DEF TypeOK, Reply
  <2>2. d = 1
    BY <1>5 DEF Due
  <2>3. (e = 0 /\ u = t) \/ u = t + 1
    BY <1>5 DEF Due, TypeOK
  <2>4. o + m + e <= a + u
    <3> HIDE DEF n, m, d, e, a, o, t, u
    <3> QED
      BY <1>2, <1>3, <1>4, <2>1, <2>2, <2>3
  <2> QED
    BY <2>4
<1>6. CASE c # asker[k]
  <2>1. o = n
    BY <1>6 DEF TypeOK, Reply
  <2>2. e = d
    BY <1>1, <1>6 DEF Due, ReplyDue, Queried
  <2>3. u = t
    BY <1>6 DEF TypeOK
  <2>4. o + m + e <= a + u
    <3> HIDE DEF n, m, d, e, a, o, t, u
    <3> QED
      BY <1>2, <1>3, <2>1, <2>2, <2>3
  <2> QED
    BY <2>4
<1> QED
  BY <1>5, <1>6

\* The commands that answer: what the answer is.
Answer(k) ==
  \/ Return(k) \/ BindRX(k) \/ BindTX(k) \/ DataType(k) \/ Query(k)

Silent(k) ==
  \/ GetLine(k) \/ GetLineFails(k) \/ Refuse(k) \/ NewChannel(k) \/ Number(k)
  \/ Channel(k) \/ OpenRX(k) \/ StartRX(k) \/ SetParameter(k) \/ Disconnect(k)
  \/ Reset(k) \/ Connect(k) \/ LoadProfile(k) \/ NoQuery(k)

LEMMA AnswerFacts ==
  ASSUME TypeOK, HandlerInv, NEW k \in Socks, Answer(k)
  PROVE  /\ \E val, port : Reply(k, val, port)
         /\ UNCHANGED <<textVars, asker, toServer, askVars>>
         /\ \A j \in Socks \ {k} : pc'[j] = pc[j] /\ line'[j] = line[j]
         /\ pc'[k] \in {"query", "idle"} /\ pc[k] # "idle" /\ pc[k] # "getline"
         /\ SockOf[asker[k]] = k
         /\ ReplyDue(k) /\ ~ReplyDue(k)'
         /\ line[k].cmd.op # "OTHER"
         /\ line'[k] = line[k] \/ pc'[k] = "idle"
<1>0. CASE Return(k)
  BY <1>0 DEF Return, HandlerInv, Goto, TypeOK, ReplyDue, Queried, RxParams, TxParams
<1>1. CASE BindRX(k)
  BY <1>1 DEF BindRX, At, HandlerInv, Goto, TypeOK, ReplyDue, Queried, RxParams, TxParams
<1>2. CASE BindTX(k)
  BY <1>2 DEF BindTX, At, HandlerInv, Goto, TypeOK,
     ReplyDue, Queried, RxParams, TxParams
<1>4. CASE DataType(k)
  BY <1>4 DEF DataType, At, HandlerInv, Goto, TypeOK,
     ReplyDue, Queried, RxParams, TxParams
<1>3. CASE Query(k)
  BY <1>3 DEF Query, HandlerInv, Leaves, Goto, TypeOK, ReplyDue, Queried,
     RxParams, TxParams
<1> QED
  BY <1>0, <1>1, <1>2, <1>3, <1>4 DEF Answer

\* What a profile answers is its reply, or one more of two.
LEMMA ProfileFacts ==
  ASSUME TypeOK, HandlerInv, NEW k \in Socks, AskProfile(k)
  PROVE  /\ Reply(k, Arg(k), 0)
         /\ UNCHANGED <<textVars, asker, line, toServer, asked>>
         /\ \A j \in Socks \ {k} : pc'[j] = pc[j]
         /\ pc[k] = "execute" /\ pc'[k] = "query"
         /\ SockOf[asker[k]] = k
         /\ ReplyDue(k)
         /\ line[k].cmd.op \notin {"NEWCHANNEL", "OTHER"}
         /\ \/ twice' = twice /\ ~ReplyDue(k)'
            \/ twice' = [twice EXCEPT ![asker[k]] = @ + 1]
<1>1. line[k].cmd.op \notin {"NEWCHANNEL", "OTHER"}
  BY CommandAssumption DEF AskProfile, ToProfile, RxParams, TxParams
<1> QED
  BY <1>1 DEF AskProfile, HandlerInv, Goto, TypeOK, ReplyDue, Queried

LEMMA SilentFacts ==
  ASSUME TypeOK, HandlerInv, NEW k \in Socks, Silent(k)
  PROVE  /\ UNCHANGED <<asker, toClient, toServer, askVars>>
         /\ \A j \in Socks \ {k} : pc'[j] = pc[j] /\ line'[j] = line[j]
         /\ ReplyDue(k)' => ReplyDue(k)
<1>1. CASE GetLine(k) \/ GetLineFails(k)
  BY <1>1 DEF GetLine, GetLineFails, Leaves, Goto, TypeOK, ReplyDue, Queried
<1>2. CASE NoQuery(k)
  BY <1>2 DEF NoQuery, Leaves, Goto, TypeOK, ReplyDue, Queried
<1>3. CASE \/ Refuse(k) \/ NewChannel(k) \/ Number(k) \/ Channel(k) \/ OpenRX(k)
           \/ StartRX(k) \/ SetParameter(k) \/ Disconnect(k) \/ Connect(k)
           \/ LoadProfile(k)
  <2>1. /\ UNCHANGED <<asker, toClient, toServer, askVars, line>>
        /\ \E l \in PCs : Goto(k, l)
        /\ pc[k] \in {"execute", "number", "start"}
    BY <1>3 DEF Refuse, NewChannel, Number, Channel, OpenRX, StartRX, At,
       SetParameter, Disconnect, Connect, LoadProfile, PCs
  <2> QED
    BY <2>1 DEF Goto, TypeOK, ReplyDue, Queried
<1>4. CASE Reset(k)
  BY <1>4 DEF Reset, HandlerInv, Goto, TypeOK, ReplyDue, Queried, RxParams,
     TxParams
<1> QED
  BY <1>1, <1>2, <1>3, <1>4 DEF Silent

LEMMA ServerSteps ==
  Server => \/ \E k \in Socks : \/ Insert(k) \/ Silent(k) \/ Answer(k)
                                \/ AskProfile(k) \/ Dies(k)
            \/ Receive
BY DEF Server, Take, Execute, ReadBack, Dies, Silent, Answer

LEMMA OnceInsert ==
  ASSUME TypeOK, AnsweredOnce, NEW k \in Socks, Insert(k)
  PROVE  AnsweredOnce'
<1>1. PICK b \in Clients :
        /\ SockOf[b] = k /\ toServer[b] # <<>>
        /\ asker' = [asker EXCEPT ![k] = b]
        /\ toServer' = [toServer EXCEPT ![b] = Tail(@)]
  BY DEF Insert
<1>2. /\ pc[k] = "idle" /\ pc' = [pc EXCEPT ![k] = "getline"]
      /\ UNCHANGED <<line, toClient, askVars>>
  BY DEF Insert, Goto
<1> SUFFICES ASSUME NEW c \in Clients
             PROVE  Len(toClient[c]) + Len(toServer'[c]) + Due(c)'
                      <= asked[c] + twice[c]
  BY <1>2 DEF AnsweredOnce, Due
<1> DEFINE n == Len(toClient[c])
           m == Len(toServer[c])
           o == Len(toServer'[c])
           d == Due(c)
           e == Due(c)'
           a == asked[c] + twice[c]
<1>3. SockOf[c] \in Socks
  BY CommandAssumption
<1>4. n \in Nat /\ m \in Nat /\ a \in Nat /\ n + m + d <= a
  <2>1. n \in Nat /\ m \in Nat /\ a \in Nat
    BY SMTT(30) DEF TypeOK
  <2>2. n + m + d <= a
    BY DEF AnsweredOnce, Due
  <2> QED
    BY <2>1, <2>2
<1>5. CASE c = b
  <2>1. toServer[b] \in Seq(Messages)
    BY DEF TypeOK
  <2>2. Len(Tail(toServer[b])) = Len(toServer[b]) - 1
    BY <1>1, <2>1
  <2>3. toServer'[b] = Tail(toServer[b])
    BY <1>1 DEF TypeOK
  <2>4. o = m - 1
    BY <1>5, <2>2, <2>3
  <2>5. d = 0
    BY <1>1, <1>2, <1>5 DEF Due, ReplyDue
  <2>6. e \in {0, 1}
    BY DEF Due
  <2>7. n + o + e <= a
    <3> HIDE DEF n, m, d, e, a, o
    <3> QED
      BY <1>4, <2>4, <2>5, <2>6
  <2> QED
    BY <2>7
<1>6. CASE c # b
  <2>1. o = m
    BY <1>1, <1>6 DEF TypeOK
  <2>2. d \in {0, 1}
    BY DEF Due
  <2>3. e = 0 \/ e = d
    <3>1. CASE SockOf[c] = k
      BY <1>1, <1>6, <3>1 DEF Due, TypeOK
    <3>2. CASE SockOf[c] # k
      BY <1>1, <1>2, <1>3, <3>2 DEF Due, TypeOK, ReplyDue, Queried
    <3> QED
      BY <3>1, <3>2
  <2>4. n + o + e <= a
    <3> HIDE DEF n, m, d, e, a, o
    <3> QED
      BY <1>4, <2>1, <2>2, <2>3
  <2> QED
    BY <2>4
<1> QED
  BY <1>5, <1>6

LEMMA OnceServer ==
  TypeOK /\ HandlerInv /\ AnsweredOnce /\ Server => AnsweredOnce'
<1> SUFFICES ASSUME TypeOK, HandlerInv, AnsweredOnce, Server PROVE AnsweredOnce'
  OBVIOUS
<1>1. ASSUME NEW how, Ends(how) PROVE AnsweredOnce'
  BY <1>1 DEF Ends, AnsweredOnce, ReplyDue, Queried
<1>2. ASSUME NEW k \in Socks, Silent(k) PROVE AnsweredOnce'
  BY <1>2, SilentFacts, OnceSilent
<1>3. ASSUME NEW k \in Socks, Answer(k) PROVE AnsweredOnce'
  <2>1. PICK val, port : Reply(k, val, port)
    BY <1>3, AnswerFacts
  <2>2. /\ UNCHANGED <<asker, toServer, askVars>>
        /\ \A j \in Socks \ {k} : pc'[j] = pc[j] /\ line'[j] = line[j]
        /\ SockOf[asker[k]] = k /\ ReplyDue(k) /\ ~ReplyDue(k)'
    BY <1>3, AnswerFacts
  <2> QED
    BY <2>1, <2>2, OnceReplies
<1>4. ASSUME NEW k \in Socks, Dies(k) \/ Receive PROVE AnsweredOnce'
  BY <1>1, <1>4, DeathEnds
<1>5. CASE Receive
  BY <1>1, <1>5 DEF Receive
<1>6. ASSUME NEW k \in Socks, AskProfile(k) PROVE AnsweredOnce'
  BY <1>6, ProfileFacts, OnceReplies
<1> QED
  BY <1>2, <1>3, <1>4, <1>5, <1>6, OnceInsert, ServerSteps

LEMMA OnceSend ==
  ASSUME TypeOK, AnsweredOnce, NEW b \in Clients, ClientSend(b)
  PROVE  AnsweredOnce'
<1> SUFFICES ASSUME NEW c \in Clients
             PROVE  Len(toClient[c]) + Len(toServer'[c]) + Due(c)'
                      <= asked'[c] + twice[c]
  BY DEF AnsweredOnce, Due, ClientSend
<1> DEFINE n == Len(toClient[c])
           m == Len(toServer[c])
           o == Len(toServer'[c])
           d == Due(c)
           e == Due(c)'
           a == asked[c]
           t == twice[c]
<1>1. d = e /\ d \in {0, 1}
  BY DEF ClientSend, serverVars, Due, ReplyDue, Queried
<1>2. n \in Nat /\ m \in Nat /\ a \in Nat /\ t \in Nat
      /\ n + m + d <= a + t
  BY DEF TypeOK, AnsweredOnce, Due
<1>3. \/ o = m + 1 /\ asked'[c] = a + 1
      \/ o = m /\ asked'[c] = a
  <2>1. PICK x \in Messages : toServer' = [toServer EXCEPT ![b] = Append(@, x)]
    BY DEF ClientSend
  <2>2. asked' = [asked EXCEPT ![b] = @ + 1]
    BY DEF ClientSend
  <2>3. toServer[c] \in Seq(Messages)
    BY DEF TypeOK
  <2>4. CASE c = b
    <3>1. toServer'[c] = Append(toServer[c], x) /\ asked'[c] = a + 1
      BY <2>1, <2>2, <2>4 DEF TypeOK
    <3> QED
      BY <2>3, <3>1
  <2>5. CASE c # b
    BY <2>1, <2>2, <2>5 DEF TypeOK
  <2> QED
    BY <2>4, <2>5
<1>4. n + o + e <= asked'[c] + t
  <2> HIDE DEF n, m, d, e, a, o, t
  <2> QED
    BY <1>1, <1>2, <1>3
<1> QED
  BY <1>4

\* No message is answered twice, once by its command and once more by the
\* read-back that follows every command, except one that a loaded profile accepts
\* under the name of a parameter, and that one no more than twice: for any
\* number of command sockets, and any commands of profiles
\* (portalCommandSocket.cc, dataFromLowerLevel: num_bytes is reset between the
\* two).
THEOREM NoSecondAnswer == Spec => []AnsweredOnce
<1> DEFINE Inv == TypeInv /\ HandlerInv /\ AnsweredOnce
<1>1. Init => Inv
  <2> SUFFICES ASSUME Init PROVE HandlerInv /\ AnsweredOnce
    BY TypeInit
  <2>1. HandlerInv
    BY DEF Init, HandlerInv
  <2>2. ASSUME NEW c \in Clients
        PROVE  /\ toClient[c] = <<>> /\ toServer[c] = <<>>
               /\ asked[c] = 0 /\ twice[c] = 0
               /\ ~ReplyDue(SockOf[c])
    BY CommandAssumption DEF Init, ReplyDue
  <2>3. AnsweredOnce
    <3> SUFFICES ASSUME NEW c \in Clients
                 PROVE  Len(toClient[c]) + Len(toServer[c]) + Due(c)
                          <= asked[c] + twice[c]
      BY DEF AnsweredOnce, Due
    <3>1. Len(toClient[c]) = 0 /\ Len(toServer[c]) = 0
          /\ asked[c] = 0 /\ twice[c] = 0
      BY <2>2
    <3>2. Due(c) = 0
      BY <2>2 DEF Due
    <3> QED
      BY <3>1, <3>2
  <2> QED
    BY <2>1, <2>3
<1>2. Inv /\ [Next]_vars => Inv'
  <2> SUFFICES ASSUME Inv, [Next]_vars PROVE HandlerInv' /\ AnsweredOnce'
    BY TypeStep
  <2>1. CASE UNCHANGED vars
    BY <2>1 DEF vars, serverVars, HandlerInv, AnsweredOnce, ReplyDue, Queried
  <2>2. CASE Server
    BY <2>2, HandlerServer, OnceServer DEF TypeInv
  <2>3. ASSUME NEW c \in Clients, ClientSend(c)
        PROVE  HandlerInv' /\ AnsweredOnce'
    BY <2>3, OnceSend DEF ClientSend, serverVars, HandlerInv, TypeInv
  <2> QED
    BY <2>1, <2>2, <2>3 DEF Next
<1> QED
  BY <1>1, <1>2, PTL DEF Spec

-----------------------------------------------------------------------------
(***************************************************************************)
(* What the histories say: they are never taken back.                      *)
(***************************************************************************)
LEMMA HandlerStep == TypeInv /\ HandlerInv /\ [Next]_vars => HandlerInv'
<1> SUFFICES ASSUME TypeInv, HandlerInv, [Next]_vars PROVE HandlerInv'
  OBVIOUS
<1>1. ASSUME UNCHANGED <<pc, asker, line, driver>> PROVE HandlerInv'
  BY <1>1 DEF HandlerInv
<1>2. ASSUME NEW c \in Clients, ClientSend(c) PROVE HandlerInv'
  BY <1>1, <1>2 DEF ClientSend, serverVars
<1> QED
  BY <1>1, <1>2, HandlerServer DEF Next, vars, serverVars, TypeInv

LEMMA HandlerInit == Init => HandlerInv
BY DEF Init, HandlerInv

LEMMA RacingStays == Server /\ ~racing' => ~racing
<1> SUFFICES ASSUME Server, racing PROVE racing'
  OBVIOUS
<1>1. ASSUME NEW k \in Socks, Insert(k) \/ Silent(k) \/ Answer(k) \/ AskProfile(k)
      PROVE  racing'
  BY <1>1 DEF Insert, Silent, Answer, AskProfile, GetLine, GetLineFails, Refuse,
     NewChannel, Number, Channel, OpenRX, StartRX, SetParameter, Disconnect, Reset,
     Connect, LoadProfile, NoQuery, Return, BindRX, BindTX, DataType, Query
<1>2. ASSUME NEW k \in Socks, Dies(k) \/ Receive PROVE racing'
  BY <1>2, DeathEnds DEF Ends
<1>3. CASE Receive
  BY <1>3 DEF Receive, Ends
<1> QED
  BY <1>1, <1>2, <1>3, ServerSteps

LEMMA MixedStays == Server /\ ~mixed' => ~mixed
<1> SUFFICES ASSUME Server, mixed PROVE mixed'
  OBVIOUS
<1>1. ASSUME NEW k \in Socks, Insert(k) \/ Silent(k) \/ Answer(k) \/ AskProfile(k)
      PROVE  mixed'
  BY <1>1 DEF Insert, Silent, Answer, AskProfile, GetLine, GetLineFails, Refuse,
     NewChannel, Number, Channel, OpenRX, StartRX, SetParameter, Disconnect, Reset,
     Connect, LoadProfile, NoQuery, Return, BindRX, BindTX, DataType, Query
<1>2. ASSUME NEW k \in Socks, Dies(k) \/ Receive PROVE mixed'
  BY <1>2, DeathEnds DEF Ends
<1>3. CASE Receive
  BY <1>3 DEF Receive, Ends
<1> QED
  BY <1>1, <1>2, <1>3, ServerSteps

-----------------------------------------------------------------------------
(***************************************************************************)
(* The numbers of channels, as long as no two handlers have been in        *)
(* addChannel at once.                                                     *)
(***************************************************************************)
InAdd(k) == pc[k] \in {"number", "return"}
Apart == \A j, k \in Socks : InAdd(j) /\ InAdd(k) => j = k

LEMMA ApartServer ==
  ASSUME TypeOK, HandlerInv, Apart, Server, ~racing' PROVE Apart'
<1>1. ASSUME NEW k \in Socks, NewChannel(k) PROVE Apart'
  BY <1>1 DEF NewChannel, At, Goto, TypeOK, Apart, InAdd
<1>2. ASSUME NEW k \in Socks, Number(k) PROVE Apart'
  BY <1>2 DEF Number, Goto, TypeOK, Apart, InAdd
<1>3. ASSUME NEW k \in Socks,
             \/ Insert(k) \/ GetLine(k) \/ GetLineFails(k) \/ Refuse(k)
             \/ Channel(k) \/ OpenRX(k) \/ StartRX(k) \/ SetParameter(k)
             \/ Disconnect(k) \/ Reset(k) \/ Connect(k) \/ LoadProfile(k)
             \/ NoQuery(k) \/ Answer(k) \/ AskProfile(k)
      PROVE  Apart'
  <2>1. \E l \in PCs \ {"number", "return"} : Goto(k, l)
    BY <1>3 DEF Insert, GetLine, GetLineFails, Refuse, Channel, OpenRX, StartRX,
       SetParameter, Disconnect, Reset, Connect, LoadProfile, NoQuery, Answer,
       Return, BindRX, BindTX, DataType, Query, AskProfile, Leaves, PCs
  <2> QED
    BY <2>1 DEF Goto, TypeOK, Apart, InAdd
<1>4. ASSUME NEW k \in Socks, Dies(k) \/ Receive PROVE Apart'
  BY <1>4, DeathEnds DEF Ends, Apart, InAdd
<1>5. CASE Receive
  BY <1>5 DEF Receive, Ends, Apart, InAdd
<1> QED
  BY <1>1, <1>2, <1>3, <1>4, <1>5, ServerSteps DEF Silent

\* Channels are numbered in the order of their sockets: the next number is that
\* of the next socket, and a reply tells both.
Numbered ==
  \A d \in DataSocks : IF d < numChannels THEN sockUid[d] = d /\ uidMap[d] = d
                        ELSE sockUid[d] = Absent
Fresh ==
  \A k \in Socks :
    /\ pc[k] = "number" =>
         fresh[k] = numChannels /\ uidMap[numChannels] = numChannels
    /\ pc[k] = "return" => fresh[k] = numChannels - 1 /\ numChannels > 0
Told ==
  \A c \in Clients : \A i \in 1 .. Len(toClient[c]) :
    toClient[c][i].op = "NEWCHANNEL" =>
      /\ toClient[c][i].port = toClient[c][i].val
      /\ toClient[c][i].val \in 0 .. (numChannels - 1)

NumberInv == Numbered /\ Fresh /\ Told

LEMMA NumberedAgree == TypeOK /\ NumberInv => UidsAgree
<1> SUFFICES ASSUME TypeOK, NumberInv PROVE UidsAgree
  OBVIOUS
<1>1. ASSUME NEW d \in DataSocks, sockUid[d] # Absent
      PROVE  uidMap[sockUid[d]] = d
  BY <1>1 DEF NumberInv, Numbered
<1>2. ASSUME NEW c \in Clients, NEW i \in 1 .. Len(toClient[c]),
             toClient[c][i].op = "NEWCHANNEL"
      PROVE  sockUid[toClient[c][i].port] = toClient[c][i].val
  <2>1. /\ toClient[c][i].port = toClient[c][i].val
        /\ toClient[c][i].val \in 0 .. (numChannels - 1)
    BY <1>2 DEF NumberInv, Told
  <2>2. toClient[c][i].val \in DataSocks /\ toClient[c][i].val < numChannels
    BY <2>1, Numbers DEF DataSocks
  <2> QED
    BY <2>1, <2>2 DEF NumberInv, Numbered
<1> QED
  BY <1>1, <1>2 DEF UidsAgree

LEMMA ToldReplies ==
  ASSUME TypeOK, Told, numChannels' = numChannels,
         NEW k \in Socks, NEW val, NEW port, Reply(k, val, port),
         line[k].cmd.op = "NEWCHANNEL" =>
           port = val /\ val \in 0 .. (numChannels - 1)
  PROVE  Told'
<1> SUFFICES ASSUME NEW c \in Clients, NEW i \in 1 .. Len(toClient'[c]),
                    toClient'[c][i].op = "NEWCHANNEL"
             PROVE  /\ toClient'[c][i].port = toClient'[c][i].val
                    /\ toClient'[c][i].val \in 0 .. (numChannels - 1)
  BY DEF Told
<1> DEFINE r == [op |-> line[k].cmd.op, val |-> val, port |-> port,
                 by |-> line[k].by]
<1>1. toClient[c] \in Seq(Replies)
  BY DEF TypeOK
<1>2. CASE c # asker[k]
  <2>1. toClient'[c] = toClient[c]
    BY <1>2 DEF Reply, TypeOK
  <2> QED
    BY <2>1 DEF Told
<1>3. CASE c = asker[k]
  <2>1. toClient'[c] = Append(toClient[c], r)
    BY <1>3 DEF Reply, TypeOK
  <2> HIDE DEF r
  <2>2. /\ i \in 1 .. Len(toClient[c]) /\ toClient'[c][i] = toClient[c][i]
        \/ toClient'[c][i] = r
    BY <1>1, <2>1
  <2>3. CASE i \in 1 .. Len(toClient[c]) /\ toClient'[c][i] = toClient[c][i]
    BY <2>3 DEF Told
  <2>4. CASE toClient'[c][i] = r
    BY <2>4 DEF r
  <2> QED
    BY <2>2, <2>3, <2>4
<1> QED
  BY <1>2, <1>3

\* A step that leaves the numbers alone and enters neither of the two places.
LEMMA NumberKeeps ==
  ASSUME TypeOK, NumberInv, NEW k \in Socks,
         UNCHANGED <<numChannels, sockUid, fresh>>,
         \A u \in Uids : uidMap[u] # Absent => uidMap'[u] = uidMap[u],
         \A j \in Socks \ {k} : pc'[j] = pc[j],
         pc'[k] \notin {"number", "return"}, Told'
  PROVE  NumberInv'
<1>1. numChannels \in Nat /\ MaxChannels \in Nat /\ \A d \in DataSocks : d \in Uids
  BY Numbers DEF DataSocks, Uids
<1>2. Numbered'
  <2> SUFFICES ASSUME NEW d \in DataSocks, d < numChannels PROVE uidMap'[d] = d
    BY DEF Numbered, NumberInv
  <2>1. uidMap[d] = d /\ d # Absent
    BY DEF NumberInv, Numbered, DataSocks, Absent
  <2> QED
    BY <1>1, <2>1
<1>3. Fresh'
  <2> SUFFICES ASSUME NEW j \in Socks, j # k, pc[j] = "number"
               PROVE  uidMap'[numChannels] = numChannels
    BY DEF Fresh, NumberInv
  <2>1. uidMap[numChannels] = numChannels /\ fresh[j] = numChannels
    BY DEF Fresh, NumberInv
  <2>2. numChannels \in DataSocks
    BY <2>1 DEF TypeOK
  <2>3. numChannels \in Uids /\ numChannels # Absent
    BY <1>1, <2>2 DEF Absent
  <2> QED
    BY <2>1, <2>3
<1> QED
  BY <1>2, <1>3 DEF NumberInv

LEMMA NumberNew ==
  ASSUME TypeInv, NumberInv, NEW k \in Socks, NewChannel(k), ~racing'
  PROVE  NumberInv'
<1>1. TypeOK /\ Counted
  BY DEF TypeInv
<1>2. pc[k] = "execute"
  BY DEF NewChannel, At
<1>11. \A j \in Socks \ {k} : pc[j] \notin {"number", "return"}
  BY DEF NewChannel
<1>3. Numbering = {}
  BY <1>2, <1>11 DEF Numbering
<1>4. made = numChannels
  BY <1>1, <1>3, FS_EmptySet, Numbers DEF Counted
<1>5. numChannels \in Nat /\ numChannels < MaxChannels /\ MaxChannels \in Nat
  BY <1>1, <1>4, Numbers DEF NewChannel
<1>6. numChannels \in Uids
  BY <1>5 DEF Uids
<1>7. uidMap' = [uidMap EXCEPT ![numChannels] = numChannels] /\ numChannels' = numChannels
  BY <1>4 DEF NewChannel
<1>8. Numbered'
  <2> SUFFICES ASSUME NEW d \in DataSocks
               PROVE  IF d < numChannels THEN sockUid[d] = d /\ uidMap'[d] = d
                      ELSE sockUid[d] = Absent
    BY <1>7 DEF Numbered, NewChannel
  <2>1. ASSUME d < numChannels PROVE uidMap'[d] = uidMap[d]
    <3>1. d # numChannels
      BY <1>5, <2>1 DEF DataSocks
    <3> QED
      BY <1>1, <1>7, <3>1 DEF TypeOK
  <2> QED
    BY <2>1 DEF NumberInv, Numbered
<1>9. Fresh'
  <2>1. \A j \in Socks : pc'[j] \in {"number", "return"} => j = k
    BY <1>1, <1>11 DEF NewChannel, Goto, TypeOK
  <2>2. pc'[k] = "number" /\ fresh'[k] = numChannels
    BY <1>1, <1>4 DEF NewChannel, Goto, TypeOK
  <2>3. uidMap'[numChannels] = numChannels
    BY <1>1, <1>6, <1>7 DEF TypeOK
  <2> QED
    BY <1>7, <2>1, <2>2, <2>3 DEF Fresh
<1>10. Told'
  BY DEF NumberInv, Told, NewChannel
<1> QED
  BY <1>8, <1>9, <1>10 DEF NumberInv

LEMMA NumberNumber ==
  ASSUME TypeInv, Apart, NumberInv, NEW k \in Socks, Number(k)
  PROVE  NumberInv'
<1>1. TypeOK
  BY DEF TypeInv
<1>2. /\ pc[k] = "number" /\ fresh[k] = numChannels
      /\ uidMap[numChannels] = numChannels
  BY DEF NumberInv, Fresh, Number
<1>3. numChannels \in DataSocks /\ numChannels \in Nat
  BY <1>1, <1>2, Numbers DEF TypeOK
<1>4. /\ sockUid' = [sockUid EXCEPT ![numChannels] = numChannels]
      /\ numChannels' = numChannels + 1
      /\ UNCHANGED <<uidMap, fresh, toClient>>
  BY <1>2 DEF Number
<1>5. Numbered'
  <2> SUFFICES ASSUME NEW d \in DataSocks
               PROVE  IF d < numChannels + 1 THEN sockUid'[d] = d /\ uidMap[d] = d
                      ELSE sockUid'[d] = Absent
    BY <1>4 DEF Numbered
  <2>1. d \in Int
    BY DEF DataSocks
  <2>2. CASE d = numChannels
    BY <1>1, <1>2, <1>3, <1>4, <2>2 DEF TypeOK
  <2>3. CASE d # numChannels
    <3>1. sockUid'[d] = sockUid[d]
      BY <1>1, <1>4, <2>3 DEF TypeOK
    <3>2. d < numChannels + 1 <=> d < numChannels
      BY <1>3, <2>1, <2>3
    <3> QED
      BY <3>1, <3>2 DEF NumberInv, Numbered
  <2> QED
    BY <2>2, <2>3
<1>6. Fresh'
  <2>1. \A j \in Socks : pc'[j] \in {"number", "return"} => j = k
    BY <1>1, <1>2 DEF Apart, InAdd, Number, Goto, TypeOK
  <2>2. pc'[k] = "return"
    BY <1>1 DEF Number, Goto, TypeOK
  <2>3. fresh'[k] = numChannels' - 1 /\ numChannels' > 0
    BY <1>2, <1>3, <1>4
  <2> QED
    BY <2>1, <2>2, <2>3 DEF Fresh
<1>7. Told'
  BY <1>3, <1>4 DEF NumberInv, Told
<1> QED
  BY <1>5, <1>6, <1>7 DEF NumberInv

LEMMA NumberReturn ==
  ASSUME TypeInv, NumberInv, NEW k \in Socks, Return(k)
  PROVE  NumberInv'
<1>1. TypeOK
  BY DEF TypeInv
<1>2. fresh[k] = numChannels - 1 /\ numChannels > 0 /\ numChannels \in Nat
  BY <1>1, Numbers DEF Return, NumberInv, Fresh
<1>3. Told'
  BY <1>1, <1>2, ToldReplies DEF Return, NumberInv
<1>4. Numbered'
  BY DEF Numbered, NumberInv, Return
<1>5. Fresh'
  BY <1>1 DEF Fresh, NumberInv, Return, Goto, TypeOK
<1> QED
  BY <1>3, <1>4, <1>5 DEF NumberInv

LEMMA NumberServer ==
  ASSUME TypeInv, HandlerInv, Apart, NumberInv, Server, ~racing'
  PROVE  NumberInv'
<1>1. TypeOK
  BY DEF TypeInv
<1>2. ASSUME NEW how, Ends(how) PROVE NumberInv'
  BY <1>2 DEF Ends, NumberInv, Numbered, Fresh, Told
<1>3. ASSUME NEW k \in Socks, BindRX(k) \/ BindTX(k) PROVE NumberInv'
  <2>1. \A u \in Uids : uidMap[u] # Absent => uidMap'[u] = uidMap[u]
    BY <1>1, <1>3 DEF BindRX, BindTX, Entry, TypeOK
  <2>2. /\ UNCHANGED <<numChannels, sockUid, fresh>>
        /\ \A j \in Socks \ {k} : pc'[j] = pc[j]
        /\ pc'[k] \notin {"number", "return"}
        /\ line[k].cmd.op # "NEWCHANNEL"
        /\ Reply(k, curChan[k], 0)
    BY <1>1, <1>3 DEF BindRX, BindTX, At, Goto, HandlerInv, TypeOK
  <2>3. Told'
    BY <1>1, <2>2, ToldReplies DEF NumberInv
  <2> QED
    BY <1>3, <1>1, <2>1, <2>2, <2>3, NumberKeeps
<1>4. ASSUME NEW k \in Socks, DataType(k) \/ Query(k)
      PROVE  NumberInv'
  <2>1. /\ UNCHANGED <<numChannels, sockUid, fresh, uidMap>>
        /\ \A j \in Socks \ {k} : pc'[j] = pc[j]
        /\ pc'[k] \notin {"number", "return"}
    BY <1>1, <1>4 DEF DataType, Query, At, Goto, Leaves, TypeOK
  <2>2. line[k].cmd.op # "NEWCHANNEL"
    BY <1>4 DEF DataType, Query, At, Queried, RxParams, TxParams
  <2>3. \E val, port : Reply(k, val, port)
    BY <1>1, <1>4, AnswerFacts DEF Answer
  <2>4. Told'
    BY <1>1, <2>1, <2>2, <2>3, ToldReplies DEF NumberInv
  <2> QED
    BY <1>4, <1>1, <2>1, <2>4, NumberKeeps
<1>5. ASSUME NEW k \in Socks,
             \/ Insert(k) \/ GetLine(k) \/ GetLineFails(k) \/ Refuse(k)
             \/ Channel(k) \/ OpenRX(k) \/ StartRX(k) \/ SetParameter(k)
             \/ Disconnect(k) \/ Reset(k) \/ Connect(k) \/ LoadProfile(k)
             \/ NoQuery(k)
      PROVE  NumberInv'
  <2>1. /\ UNCHANGED <<numChannels, sockUid, fresh, uidMap, toClient>>
        /\ \E l \in PCs \ {"number", "return"} : Goto(k, l)
    BY <1>5 DEF Insert, GetLine, GetLineFails, Refuse, Channel, OpenRX, StartRX,
       SetParameter, Disconnect, Reset, Connect, LoadProfile, NoQuery, Leaves, PCs
  <2>2. /\ \A j \in Socks \ {k} : pc'[j] = pc[j]
        /\ pc'[k] \notin {"number", "return"}
    BY <1>1, <2>1 DEF Goto, TypeOK
  <2>3. Told'
    BY <2>1 DEF Told, NumberInv
  <2> QED
    BY <1>5, <1>1, <2>1, <2>2, <2>3, NumberKeeps
<1>6. ASSUME NEW k \in Socks, Dies(k) \/ Receive PROVE NumberInv'
  BY <1>2, <1>6, DeathEnds
<1>7. CASE Receive
  BY <1>2, <1>7 DEF Receive
<1>8. ASSUME NEW k \in Socks, AskProfile(k) PROVE NumberInv'
  <2>1. /\ UNCHANGED <<numChannels, sockUid, fresh, uidMap>>
        /\ \A j \in Socks \ {k} : pc'[j] = pc[j]
        /\ pc'[k] \notin {"number", "return"}
    BY <1>1, <1>8 DEF AskProfile, Goto, TypeOK
  <2>2. Told'
    BY <1>1, <1>8, <2>1, ProfileFacts, ToldReplies DEF NumberInv
  <2> QED
    BY <1>8, <1>1, <2>1, <2>2, NumberKeeps
<1> QED
  BY <1>1, <1>3, <1>4, <1>5, <1>6, <1>7, <1>8, NumberNew, NumberNumber,
     NumberReturn, ServerSteps DEF Silent, Answer

NumbersInv == ~racing => Apart /\ NumberInv

LEMMA NumbersInit == Init => NumbersInv
<1> SUFFICES ASSUME Init PROVE Apart /\ NumberInv
  BY DEF NumbersInv
<1>1. numChannels = 0 /\ \A c \in Clients : toClient[c] = <<>>
  BY DEF Init
<1>2. Numbered
  BY <1>1 DEF Numbered, Init, DataSocks
<1>3. Fresh /\ Apart
  BY DEF Fresh, Apart, InAdd, Init
<1>4. Told
  BY <1>1 DEF Told
<1> QED
  BY <1>2, <1>3, <1>4 DEF NumberInv

\* The number a data socket has, the entry of uid_map under it, and the number and
\* the port that a client was told all agree, for every channel, every client and
\* any number of command sockets, until two handlers have been in addChannel at
\* once (genericSDRInterface.cc, addChannel: "create a sequential UID for this
\* port").
THEOREM NumbersAgree == Spec => []UidsAgree
<1> DEFINE Inv == TypeInv /\ HandlerInv /\ NumbersInv
<1>1. Init => Inv
  BY TypeInit, HandlerInit, NumbersInit
<1>2. Inv /\ [Next]_vars => Inv'
  <2> SUFFICES ASSUME Inv, [Next]_vars, ~racing' PROVE Apart' /\ NumberInv'
    BY TypeStep, HandlerStep DEF NumbersInv
  <2>1. ASSUME UNCHANGED <<numChannels, sockUid, uidMap, pc, fresh, toClient, racing>>
        PROVE  Apart' /\ NumberInv'
    BY <2>1 DEF NumbersInv, NumberInv, Numbered, Fresh, Told, Apart, InAdd
  <2>2. ASSUME NEW c \in Clients, ClientSend(c) PROVE Apart' /\ NumberInv'
    BY <2>1, <2>2 DEF ClientSend, serverVars
  <2>3. CASE Server
    BY <2>3, RacingStays, ApartServer, NumberServer DEF NumbersInv, TypeInv
  <2> QED
    BY <2>1, <2>2, <2>3 DEF Next, vars, serverVars
<1>3. Inv => UidsAgree
  BY NumberedAgree DEF NumbersInv, TypeInv, UidsAgree
<1> QED
  BY <1>1, <1>2, <1>3, PTL DEF Spec

-----------------------------------------------------------------------------
(***************************************************************************)
(* The receive threads.                                                    *)
(***************************************************************************)
ReceiverInv ==
  /\ ~receiving => receivers = 0
  /\ device = "closed" => driver = "uhd"
  /\ ~crossed => \A k \in Socks : pc[k] = "reset" => ~receiving
  /\ ~crossed => (device = "closed" => ~receiving)

LEMMA ReceiverServer ==
  ASSUME TypeOK, HandlerInv, ReceiverInv, Server
  PROVE  ReceiverInv'
<1>1. ASSUME NEW k \in Socks, UNCHANGED deviceVars,
             NEW l \in PCs \ {"reset"}, Goto(k, l)
      PROVE  ReceiverInv'
  BY <1>1 DEF ReceiverInv, Goto, TypeOK
<1>2. ASSUME UNCHANGED <<deviceVars, pc>> PROVE ReceiverInv'
  BY <1>2 DEF ReceiverInv
<1>3. ASSUME NEW k \in Socks, StartRX(k) PROVE ReceiverInv'
  <2>1. /\ receiving' = TRUE /\ UNCHANGED <<driver, device>>
        /\ crossed' = (crossed \/ \E j \in Socks : pc[j] = "reset")
        /\ pc' = [pc EXCEPT ![k] = "bind"]
    BY <1>3 DEF StartRX, Goto
  <2>2. device # "closed"
    BY <1>3 DEF StartRX, ReceiverInv, NoDevice
  <2> QED
    BY <2>1, <2>2 DEF ReceiverInv, TypeOK
<1>4. ASSUME NEW k \in Socks, Disconnect(k) PROVE ReceiverInv'
  <2>1. /\ UNCHANGED deviceVars /\ pc' = [pc EXCEPT ![k] = IF driver = "uhd" THEN "reset" ELSE "query"]
        /\ driver = "uhd" => ~receiving
    BY <1>4 DEF Disconnect, Joining, Goto
  <2> QED
    BY <2>1 DEF ReceiverInv, TypeOK
<1>5. ASSUME NEW k \in Socks, Reset(k) PROVE ReceiverInv'
  <2>1. /\ pc[k] = "reset" /\ device' = "closed"
        /\ UNCHANGED <<driver, receiving, receivers, crossed>>
        /\ pc' = [pc EXCEPT ![k] = "query"]
    BY <1>5 DEF Reset, Goto
  <2>2. driver = "uhd"
    BY <2>1 DEF HandlerInv
  <2> QED
    BY <2>1, <2>2 DEF ReceiverInv, TypeOK
<1>6. ASSUME NEW k \in Socks, SetParameter(k) \/ Connect(k) PROVE ReceiverInv'
  BY <1>6 DEF SetParameter, Connect, ReceiverInv, Goto, TypeOK
<1>7. ASSUME NEW k \in Socks,
             \/ Insert(k) \/ GetLine(k) \/ GetLineFails(k) \/ Refuse(k)
             \/ NewChannel(k) \/ Number(k) \/ Return(k) \/ Channel(k)
             \/ OpenRX(k) \/ BindRX(k) \/ BindTX(k) \/ DataType(k)
             \/ LoadProfile(k) \/ AskProfile(k) \/ Query(k) \/ NoQuery(k)
      PROVE  ReceiverInv'
  <2>1. /\ UNCHANGED deviceVars
        /\ \E l \in PCs \ {"reset"} : Goto(k, l)
    BY <1>7 DEF Insert, GetLine, GetLineFails, Refuse, NewChannel, Number, Return,
       Channel, OpenRX, BindRX, BindTX, DataType, LoadProfile, AskProfile, Query,
       NoQuery, Leaves, PCs
  <2> QED
    BY <1>1, <2>1
<1>8. ASSUME NEW k \in Socks, Dies(k) \/ Receive PROVE ReceiverInv'
  BY <1>2, <1>8, DeathEnds DEF Ends
<1>9. CASE Receive
  BY <1>2, <1>9 DEF Receive, Ends
<1> QED
  BY <1>3, <1>4, <1>5, <1>6, <1>7, <1>8, <1>9, ServerSteps DEF Silent, Answer

\* A device that was given up has no receive thread that still uses it, whatever
\* the handlers of the command sockets do side by side, unless reception was
\* started between the two steps of a disconnect (uhdInterface.cc, disconnect:
\* rxStop before the device is reset).
THEOREM ClosedDeviceIsQuiet == Spec => []ClosedIsQuiet
<1> DEFINE Inv == TypeInv /\ HandlerInv /\ ReceiverInv
<1>1. Init => Inv
  <2>1. Init => ReceiverInv
    BY DEF Init, ReceiverInv
  <2> QED
    BY <2>1, TypeInit, HandlerInit
<1>2. Inv /\ [Next]_vars => Inv'
  <2> SUFFICES ASSUME Inv, [Next]_vars PROVE ReceiverInv'
    BY TypeStep, HandlerStep
  <2>1. ASSUME UNCHANGED <<deviceVars, pc>> PROVE ReceiverInv'
    BY <2>1 DEF ReceiverInv
  <2>2. ASSUME NEW c \in Clients, ClientSend(c) PROVE ReceiverInv'
    BY <2>1, <2>2 DEF ClientSend, serverVars
  <2>3. CASE Server
    BY <2>3, ReceiverServer DEF TypeInv
  <2> QED
    BY <2>1, <2>2, <2>3 DEF Next, vars, serverVars
<1>3. Inv => ClosedIsQuiet
  BY DEF ReceiverInv, ClosedIsQuiet
<1> QED
  BY <1>1, <1>2, <1>3, PTL DEF Spec

-----------------------------------------------------------------------------
(***************************************************************************)
(* Whose line a handler takes out of the stream, as long as no message has *)
(* met another's: one handler at a time waits for its line, and the lines  *)
(* that are there come from its client.                                    *)
(***************************************************************************)
LinesIn ==
  /\ \A j, k \in Socks : pc[j] = "getline" /\ pc[k] = "getline" => j = k
  /\ \A k \in Socks : pc[k] = "getline" =>
       \A i \in Newlines : stream[i].by = asker[k]
LineOut ==
  \A k \in Socks :
    /\ line[k].cmd.op = "OTHER" \/ line[k].by = asker[k]
    /\ pc[k] \in {"idle", "getline"} => line[k].cmd.op = "OTHER"
OwnReplies ==
  \A c \in Clients : \A i \in 1 .. Len(toClient[c]) : toClient[c][i].by = c

AskerInv == LinesIn /\ LineOut /\ OwnReplies

LEMMA AskerInsert ==
  ASSUME TypeInv, AskerInv, NEW k \in Socks, Insert(k), ~mixed'
  PROVE  AskerInv'
<1>1. TypeOK
  BY DEF TypeInv
<1>2. PICK c \in Clients :
        /\ toServer[c] # <<>>
        /\ stream' = IF eof THEN stream
                     ELSE stream \o Signed(Head(toServer[c]), c)
        /\ mixed' = (mixed \/ Meets(k, c))
        /\ asker' = [asker EXCEPT ![k] = c]
  BY DEF Insert
<1> DEFINE m == Head(toServer[c])
           s == Signed(m, c)
<1>3. m \in Messages
  BY SMTT(30), <1>1, <1>2 DEF TypeOK
<1>4. /\ s \in Seq(Pieces) /\ Len(s) = Len(m)
      /\ \A i \in 1 .. Len(m) : s[i].by = c
  BY <1>3, SignedType
<1>5. stream \in Seq(Pieces)
  BY <1>1 DEF TypeOK, Pieces
<1>6. /\ \A j \in Socks \ {k} : pc[j] # "getline"
      /\ \A i \in Newlines : stream[i].by = c
  BY <1>2 DEF Meets, Newlines
<1>7. /\ pc[k] = "idle" /\ pc' = [pc EXCEPT ![k] = "getline"]
      /\ UNCHANGED <<line, toClient>>
  BY DEF Insert, Goto
<1>8. ASSUME NEW i \in Newlines' PROVE stream'[i].by = c
  <2> HIDE DEF s
  <2>1. i \in 1 .. Len(stream') /\ stream'[i].part = "whole"
    BY <1>8 DEF Newlines
  <2>2. CASE eof
    BY <1>2, <1>6, <2>1, <2>2 DEF Newlines
  <2>3. CASE ~eof
    <3>1. stream' = stream \o s
      BY <1>2, <2>3 DEF s
    <3>2. CASE i \in 1 .. Len(stream)
      <4>1. stream'[i] = stream[i]
        BY <1>4, <1>5, <3>1, <3>2
      <4> QED
        BY <1>6, <2>1, <3>2, <4>1 DEF Newlines
    <3>3. CASE i \notin 1 .. Len(stream)
      <4>1. i - Len(stream) \in 1 .. Len(m) /\ stream'[i] = s[i - Len(stream)]
        BY <1>4, <1>5, <2>1, <3>1, <3>3
      <4> QED
        BY <1>4, <4>1
    <3> QED
      BY <3>2, <3>3
  <2> QED
    BY <2>2, <2>3
<1>9. LinesIn'
  BY <1>1, <1>2, <1>6, <1>7, <1>8 DEF LinesIn, TypeOK
<1>10. LineOut'
  BY <1>1, <1>2, <1>7 DEF AskerInv, LineOut, TypeOK
<1>11. OwnReplies'
  BY <1>7 DEF AskerInv, OwnReplies
<1> QED
  BY <1>9, <1>10, <1>11 DEF AskerInv

LEMMA AskerGetLine ==
  ASSUME TypeInv, AskerInv, NEW k \in Socks, GetLine(k)
  PROVE  AskerInv'
<1>1. TypeOK
  BY DEF TypeInv
<1>2. stream \in Seq(Pieces) /\ stream # <<>>
  BY <1>1 DEF TypeOK, Pieces, GetLine
<1> DEFINE n == LineLength
           ps == SubSeq(stream, 1, n)
<1>3. /\ n \in 1 .. Len(stream)
      /\ Newlines # {} => n \in Newlines
  BY <1>2, LineLengthFacts
<1>4. Len(ps) = n /\ ps[1] = stream[1]
  BY <1>2, <1>3
<1>5. /\ pc[k] = "getline"
      /\ line' = [line EXCEPT ![k] = [cmd |-> Parsed(ps), by |-> stream[n].by]]
      /\ pc' = [pc EXCEPT ![k] = "execute"]
      /\ UNCHANGED <<asker, toClient>>
  BY DEF GetLine, Goto
<1> HIDE DEF n, ps
<1>6. LinesIn'
  <2>1. \A j \in Socks : pc'[j] # "getline"
    BY <1>1, <1>5 DEF AskerInv, LinesIn, TypeOK
  <2> QED
    BY <2>1 DEF LinesIn
<1>7. Parsed(ps).op = "OTHER" \/ stream[n].by = asker[k]
  <2>1. CASE Newlines = {}
    <3>1. ~(Len(ps) = 1 /\ ps[1].part = "whole")
      <4> SUFFICES ASSUME ps[1].part = "whole" PROVE FALSE
        OBVIOUS
      <4>1. 1 \in 1 .. Len(stream)
        BY <1>3
      <4>2. 1 \in Newlines
        BY <1>4, <4>1 DEF Newlines
      <4> QED
        BY <2>1, <4>2
    <3> QED
      BY <3>1 DEF Parsed, Unknown
  <2>2. CASE Newlines # {}
    BY <1>3, <1>5, <2>2 DEF AskerInv, LinesIn
  <2> QED
    BY <2>1, <2>2
<1>8. LineOut'
  BY <1>1, <1>5, <1>7 DEF AskerInv, LineOut, TypeOK
<1>9. OwnReplies'
  BY <1>5 DEF AskerInv, OwnReplies
<1> QED
  BY <1>6, <1>8, <1>9 DEF AskerInv

\* A step of a command, which leaves the stream alone.
LEMMA AskerKeeps ==
  ASSUME TypeOK, AskerInv, NEW k \in Socks, UNCHANGED <<stream, asker>>,
         \A j \in Socks \ {k} : pc'[j] = pc[j] /\ line'[j] = line[j],
         pc'[k] # "getline",
         \/ line'[k] = line[k] /\ pc'[k] # "idle"
         \/ line'[k].cmd.op = "OTHER",
         OwnReplies'
  PROVE  AskerInv'
<1>1. LinesIn'
  BY DEF AskerInv, LinesIn, Newlines
<1>2. LineOut'
  BY DEF AskerInv, LineOut
<1> QED
  BY <1>1, <1>2 DEF AskerInv

LEMMA AskerReplies ==
  ASSUME TypeOK, AskerInv, NEW k \in Socks, line[k].cmd.op # "OTHER",
         NEW val, NEW port, Reply(k, val, port)
  PROVE  OwnReplies'
<1> SUFFICES ASSUME NEW c \in Clients, NEW i \in 1 .. Len(toClient'[c])
             PROVE  toClient'[c][i].by = c
  BY DEF OwnReplies
<1> DEFINE r == [op |-> line[k].cmd.op, val |-> val, port |-> port,
                 by |-> line[k].by]
<1>1. toClient[c] \in Seq(Replies)
  BY DEF TypeOK
<1>2. CASE c # asker[k]
  <2>1. toClient'[c] = toClient[c]
    BY <1>2 DEF Reply, TypeOK
  <2> QED
    BY <2>1 DEF AskerInv, OwnReplies
<1>3. CASE c = asker[k]
  <2>1. toClient'[c] = Append(toClient[c], r)
    BY <1>3 DEF Reply, TypeOK
  <2>2. r.by = c
    BY <1>3 DEF AskerInv, LineOut
  <2> HIDE DEF r
  <2>3. \/ i \in 1 .. Len(toClient[c]) /\ toClient'[c][i] = toClient[c][i]
        \/ toClient'[c][i] = r
    BY <1>1, <2>1
  <2> QED
    BY <2>2, <2>3 DEF AskerInv, OwnReplies
<1> QED
  BY <1>2, <1>3

LEMMA AskerServer ==
  ASSUME TypeInv, HandlerInv, AskerInv, Server, ~mixed'
  PROVE  AskerInv'
<1>1. TypeOK
  BY DEF TypeInv
<1>2. ASSUME NEW how, Ends(how) PROVE AskerInv'
  BY <1>2 DEF Ends, AskerInv, LinesIn, LineOut, Newlines, OwnReplies
<1>3. ASSUME NEW k \in Socks, Answer(k) PROVE AskerInv'
  <2>1. PICK val, port : Reply(k, val, port)
    BY <1>1, <1>3, AnswerFacts
  <2>2. /\ UNCHANGED <<stream, asker>>
        /\ \A j \in Socks \ {k} : pc'[j] = pc[j] /\ line'[j] = line[j]
        /\ pc'[k] # "getline" /\ line[k].cmd.op # "OTHER"
    BY <1>1, <1>3, AnswerFacts
  <2>3. \/ line'[k] = line[k] /\ pc'[k] # "idle"
        \/ line'[k].cmd.op = "OTHER"
    <3>1. CASE Query(k)
      BY <1>1, <3>1 DEF Query, Leaves, NoLine, Unknown, TypeOK
    <3>2. CASE Return(k) \/ BindRX(k) \/ BindTX(k) \/ DataType(k)
      <4>1. line' = line /\ Goto(k, "query")
        BY <3>2 DEF Return, BindRX, BindTX, DataType
      <4> QED
        BY <1>1, <4>1 DEF Goto, TypeOK
    <3> QED
      BY <1>3, <3>1, <3>2 DEF Answer
  <2>4. OwnReplies'
    BY <1>1, <2>1, <2>2, AskerReplies
  <2> QED
    BY <1>1, <2>2, <2>3, <2>4, AskerKeeps
<1>4. ASSUME NEW k \in Socks, AskProfile(k) PROVE AskerInv'
  <2>1. /\ UNCHANGED <<stream, asker, line>> /\ Reply(k, Arg(k), 0)
        /\ \A j \in Socks \ {k} : pc'[j] = pc[j]
        /\ pc'[k] = "query" /\ line[k].cmd.op # "OTHER"
    BY <1>1, <1>4, ProfileFacts
  <2>2. OwnReplies'
    BY <1>1, <2>1, AskerReplies
  <2> QED
    BY <1>1, <2>1, <2>2, AskerKeeps
<1>5. ASSUME NEW k \in Socks, NoQuery(k) \/ GetLineFails(k) PROVE AskerInv'
  <2>1. OwnReplies'
    BY <1>5 DEF NoQuery, GetLineFails, AskerInv, OwnReplies
  <2>2. /\ line'[k].cmd.op = "OTHER" /\ pc'[k] = "idle"
        /\ \A j \in Socks \ {k} : pc'[j] = pc[j] /\ line'[j] = line[j]
        /\ UNCHANGED <<stream, asker>>
    <3>1. Leaves(k) /\ UNCHANGED <<stream, asker>>
      BY <1>5 DEF NoQuery, GetLineFails
    <3>2. line'[k] = NoLine(k) /\ pc'[k] = "idle"
      BY <1>1, <3>1 DEF Leaves, Goto, TypeOK
    <3>3. \A j \in Socks \ {k} : pc'[j] = pc[j] /\ line'[j] = line[j]
      BY <1>1, <3>1 DEF Leaves, Goto, TypeOK
    <3> QED
      BY <3>1, <3>2, <3>3 DEF NoLine, Unknown
  <2> QED
    BY <1>1, <2>1, <2>2, AskerKeeps
<1>6. ASSUME NEW k \in Socks,
             \/ Refuse(k) \/ NewChannel(k) \/ Number(k) \/ Channel(k) \/ OpenRX(k)
             \/ StartRX(k) \/ SetParameter(k) \/ Disconnect(k) \/ Reset(k)
             \/ Connect(k) \/ LoadProfile(k)
      PROVE  AskerInv'
  <2>1. /\ UNCHANGED <<stream, asker, line, toClient>>
        /\ \E l \in PCs \ {"idle", "getline"} : Goto(k, l)
    BY <1>6 DEF Refuse, NewChannel, Number, Channel, OpenRX, StartRX,
       SetParameter, Disconnect, Reset, Connect, LoadProfile, PCs
  <2>2. /\ pc'[k] \notin {"idle", "getline"}
        /\ \A j \in Socks \ {k} : pc'[j] = pc[j]
    BY <1>1, <2>1 DEF Goto, TypeOK
  <2>3. OwnReplies'
    BY <2>1 DEF AskerInv, OwnReplies
  <2> QED
    BY <1>1, <2>1, <2>2, <2>3, AskerKeeps
<1>7. ASSUME NEW k \in Socks, Dies(k) \/ Receive PROVE AskerInv'
  BY <1>2, <1>7, DeathEnds
<1>8. CASE Receive
  BY <1>2, <1>8 DEF Receive
<1> QED
  BY <1>3, <1>4, <1>5, <1>6, <1>7, <1>8, AskerInsert, AskerGetLine, ServerSteps
     DEF Silent

\* A reply answers a command of the client that gets it, for any number of command
\* sockets and any lines and halves of lines in a message, until a message has met
\* another's line in the one static stream (portalCommandSocket.cc,
\* dataFromLowerLevel).
THEOREM AnswersGoToAskers == Spec => []AnsweredToAsker
<1> DEFINE Inv == TypeInv /\ HandlerInv /\ (~mixed => AskerInv)
<1>1. Init => Inv
  <2> SUFFICES ASSUME Init PROVE AskerInv
    BY TypeInit, HandlerInit
  <2>1. /\ \A c \in Clients : toClient[c] = <<>>
        /\ \A k \in Socks : pc[k] = "idle" /\ line[k].cmd = Unknown
    BY DEF Init
  <2> QED
    BY <2>1 DEF AskerInv, LinesIn, LineOut, OwnReplies, Unknown
<1>2. Inv /\ [Next]_vars => Inv'
  <2> SUFFICES ASSUME Inv, [Next]_vars, ~mixed' PROVE AskerInv'
    BY TypeStep, HandlerStep
  <2>1. ASSUME UNCHANGED <<stream, asker, line, pc, toClient, mixed>>
        PROVE  AskerInv'
    BY <2>1 DEF AskerInv, LinesIn, LineOut, Newlines, OwnReplies
  <2>2. ASSUME NEW c \in Clients, ClientSend(c) PROVE AskerInv'
    BY <2>1, <2>2 DEF ClientSend, serverVars
  <2>3. CASE Server
    BY <2>3, MixedStays, AskerServer
  <2> QED
    BY <2>1, <2>2, <2>3 DEF Next, vars, serverVars
<1>3. Inv => AnsweredToAsker
  BY DEF AskerInv, OwnReplies, AnsweredToAsker
<1> QED
  BY <1>1, <1>2, <1>3, PTL DEF Spec

-----------------------------------------------------------------------------
(***************************************************************************)
(* What the modules about browsers build on: a browser can only use the    *)
(* web socket, whose readers exclude each other.  With nobody on the TCP   *)
(* socket of the same daemon, no command comes between the steps of one.   *)
(***************************************************************************)
Used == {SockOf[c] : c \in Clients}
SameSocket == \A j, k \in Used : j = k

\* The socket of every handler is one that is used.
LEMMA UsedFacts ==
  /\ Used \subseteq Socks
  /\ \A c \in Clients : SockOf[c] \in Used
  /\ \A k \in Socks : Insert(k) => k \in Used
  /\ TypeOK /\ HandlerInv => \A k \in Socks : pc[k] # "idle" => k \in Used
BY CommandAssumption DEF Used, Insert, HandlerInv, TypeOK

LEMMA UsedSteps ==
  ASSUME TypeOK, HandlerInv, Server
  PROVE  \/ \E k \in Socks : k \in Used /\ (Insert(k) \/ Silent(k) \/ Answer(k)
                                               \/ AskProfile(k))
         \/ \E k \in Socks : Dies(k)
         \/ Receive
<1>1. ASSUME NEW k \in Socks, Silent(k) \/ Answer(k) \/ AskProfile(k) PROVE pc[k] # "idle"
  BY <1>1 DEF Silent, Answer, GetLine, GetLineFails, Refuse, NewChannel, Number,
     Channel, OpenRX, StartRX, SetParameter, Disconnect, Reset, Connect,
     LoadProfile, NoQuery, Return, BindRX, BindTX, DataType, AskProfile, Query, At
<1> QED
  BY <1>1, ServerSteps, UsedFacts

\* One handler at a time is at work, and none meets another in addChannel.
LEMMA NeverApart ==
  ASSUME SameSocket, TypeOK, HandlerInv PROVE Apart
BY UsedFacts DEF SameSocket, Apart, InAdd

LEMMA NeverRacing ==
  ASSUME SameSocket, TypeOK, HandlerInv, ~racing, Server PROVE ~racing'
<1>1. ASSUME NEW k \in Socks, NewChannel(k) PROVE ~racing'
  BY <1>1, UsedFacts DEF NewChannel, At, SameSocket
<1>2. ASSUME NEW k \in Socks,
             \/ Insert(k) \/ GetLine(k) \/ GetLineFails(k) \/ Refuse(k)
             \/ Number(k) \/ Channel(k) \/ OpenRX(k) \/ StartRX(k)
             \/ SetParameter(k) \/ Disconnect(k) \/ Reset(k) \/ Connect(k)
             \/ LoadProfile(k) \/ NoQuery(k) \/ Answer(k) \/ AskProfile(k)
      PROVE  ~racing'
  BY <1>2 DEF Insert, GetLine, GetLineFails, Refuse, Number, Channel, OpenRX,
     StartRX, SetParameter, Disconnect, Reset, Connect, LoadProfile, NoQuery,
     Answer, Return, BindRX, BindTX, DataType, Query, AskProfile
<1>3. ASSUME NEW k \in Socks, Dies(k) \/ Receive PROVE ~racing'
  BY <1>3, DeathEnds DEF Ends
<1>4. CASE Receive
  BY <1>4 DEF Receive, Ends
<1> QED
  BY <1>1, <1>2, <1>3, <1>4, ServerSteps DEF Silent
=============================================================================
