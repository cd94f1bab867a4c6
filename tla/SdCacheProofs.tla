---------------------------- MODULE SdCacheProofs ----------------------------
(***************************************************************************)
(* What is proved of SdCache: its types, under every fault; and, as long   *)
(* as transfers do not fail and a card is not pulled out during a call,    *)
(* that the cache agrees with the card and that the SD layer implements    *)
(* BlockDevice, for a card of any size that 32-bit byte addresses reach.   *)
(***************************************************************************)
EXTENDS SdCache, TLAPS

Buffers(count) == [ 0 .. count - 1 -> Data ]

CallType ==
  [ at : { "idle", "asked", "filled", "programming", "written" },
    op : { "none", "read", "write" }, block : Blocks, count : 0 .. MaxCount,
    data : { << >> } \cup UNION { Buffers(n) : n \in 1 .. MaxCount } ]

\* The call in progress is well formed.
CallOK ==
  /\ call \in CallType
  /\ call.at = "idle" => call = Idle
  /\ call.at # "idle" => call.count >= 1 /\ call.block + call.count <= Capacity
  /\ call.at \in { "asked", "filled", "programming", "written" } => call.op \in { "read", "write" }
  /\ call.op = "write" => call.data \in Buffers(call.count)
  /\ call.at = "filled" => call.op = "read"
  /\ call.at \in { "programming", "written" } => call.op = "write"

TypeInv == TypeOK /\ CallOK

Sound(tag) ==
  \A i \in CacheSlots : tag + i \in Blocks => cache[i] = card[tag + i]

\* CacheCoherent is not inductive: a hit needs it while the call is asked, and a fill
\* has to bring in the blocks that the call will be tagged with.
CoherentInv ==
  /\ present => live
  /\ call.at \in { "idle", "asked" } => Sound(mReadCacheBlock)
  /\ call.at = "filled" => Sound(call.block)

-----------------------------------------------------------------------------
(* Types. *)

LEMMA InitType == Init => TypeInv
BY SdAssumption DEF Init, TypeInv, TypeOK, CallOK, CallType, Idle, Error, Blocks

LEMMA AskType ==
  ASSUME TypeInv, Ask
  PROVE  TypeInv'
<1>1. PICK block \in Blocks, count \in 1 .. MaxCount :
        /\ block + count <= Capacity
        /\ \/ AskRead(block, count)
           \/ \E data \in [ 0 .. count - 1 -> Data ] : AskWrite(block, count, data)
  BY DEF Ask
<1>2. CASE AskRead(block, count)
  BY <1>1, <1>2, SdAssumption DEF AskRead, TypeInv, TypeOK, CallOK, CallType, Error, Idle, Blocks
<1>3. ASSUME NEW data \in [ 0 .. count - 1 -> Data ], AskWrite(block, count, data)
      PROVE  TypeInv'
  <2>1. data \in Buffers(count)
    BY DEF Buffers
  <2>2. call' \in CallType
    BY <1>1, <1>3, <2>1, SdAssumption DEF AskWrite, CallType
  <2>3. CallOK'
    BY <1>1, <1>3, <2>1, <2>2 DEF AskWrite, CallOK
  <2>4. TypeOK'
    BY <1>1, <1>3, SdAssumption DEF AskWrite, TypeInv, TypeOK, Error
  <2>5. QED BY <2>3, <2>4 DEF TypeInv
<1>4. QED BY <1>1, <1>2, <1>3

LEMMA AnswerType ==
  ASSUME TypeInv, NEW a, Answers(a)
  PROVE  CallOK' /\ call'.at = "idle"
BY SdAssumption DEF Answers, CallOK, CallType, Idle, Blocks

LEMMA ServeType ==
  ASSUME TypeInv, Serve
  PROVE  TypeInv'
<1>1. CASE Refuse
  BY <1>1, AnswerType DEF Refuse, TypeInv, TypeOK, Answers, Error, Idle, CallOK, CallType
<1>2. CASE ReadHit
  BY <1>2, AnswerType DEF ReadHit, TypeInv, TypeOK, Answers, Ok, Idle, CallOK, CallType
<1>3. CASE ReadFill
  <2>1. cache' \in [ CacheSlots -> Data \cup { Junk } ]
    BY <1>3 DEF ReadFill, TypeInv, TypeOK
  <2>2. CallOK'
    BY <1>3 DEF ReadFill, Asked, TypeInv, CallOK, CallType
  <2>3. QED BY <1>3, <2>1, <2>2 DEF ReadFill, Asked, TypeInv, TypeOK
<1>4. CASE ReadDeliver
  <2>1. mReadCacheBlock' \in Blocks
    BY <1>4 DEF ReadDeliver, BlockArgument, TypeInv, TypeOK, CallOK
  <2>2. QED BY <1>4, <2>1, AnswerType DEF ReadDeliver, TypeInv, TypeOK, Answers, Ok, Idle, CallOK, CallType
<1>5. CASE WriteBlocks
  <2> DEFINE first == CardBlock(BlockArgument(call))
  <2>1. PICK moved \in Transferred(call.count, "writeError") :
          /\ card' = [ b \in Blocks |-> IF b \in first .. first + moved - 1
                                          THEN call.data[b - first] ELSE card[b] ]
          /\ call' = [ call EXCEPT !.at = IF moved = call.count THEN "programming" ELSE "written" ]
    BY <1>5 DEF WriteBlocks
  <2>2. call.data \in Buffers(call.count) /\ call.count \in 1 .. MaxCount
    BY <1>5, SdAssumption DEF WriteBlocks, Asked, TypeInv, CallOK, CallType
  <2>3. moved \in 0 .. call.count
    BY <2>1, <2>2, SdAssumption DEF Transferred
  <2>4. first \in Nat
    <3>1. BlockArgument(call) \in Nat
      BY SdAssumption DEF BlockArgument, TypeInv, TypeOK, Blocks
    <3>2. QED BY <3>1, SdAssumption DEF CardBlock
  <2>5. card' \in [ Blocks -> Data ]
    <3> HIDE DEF first
    <3>1. ASSUME NEW b \in Blocks, b \in first .. first + moved - 1
          PROVE  call.data[b - first] \in Data
      <4>1. b - first \in 0 .. call.count - 1
        BY <2>2, <2>3, <2>4, <3>1, SdAssumption DEF Blocks
      <4>2. QED BY <4>1, <2>2 DEF Buffers
    <3>2. QED BY <2>1, <3>1 DEF TypeInv, TypeOK
  <2>6. CallOK'
    BY <1>5, <2>1 DEF WriteBlocks, Asked, TypeInv, CallOK, CallType
  <2>7. QED BY <1>5, <2>5, <2>6, <2>1 DEF WriteBlocks, TypeInv, TypeOK
<1>6. CASE WriteProgrammed
  BY <1>6 DEF WriteProgrammed, TypeInv, TypeOK, CallOK, CallType
<1>7. CASE WriteReturn
  BY <1>7, AnswerType DEF WriteReturn, TypeInv, TypeOK, Answers, Ok, Idle, CallOK, CallType
<1>8. QED BY <1>1, <1>2, <1>3, <1>4, <1>5, <1>6, <1>7 DEF Serve

LEMMA NextType == TypeInv /\ [Next]_vars => TypeInv'
<1> SUFFICES ASSUME TypeInv, [Next]_vars PROVE TypeInv'
  OBVIOUS
<1>1. CASE Ask
  BY <1>1, AskType
<1>2. CASE Serve
  BY <1>2, ServeType
<1>3. CASE Remove
  BY <1>3 DEF Remove, TypeInv, TypeOK, CallOK
<1>4. CASE Insert
  BY <1>4 DEF Insert, TypeInv, TypeOK, CallOK
<1>5. CASE UNCHANGED vars
  BY <1>5 DEF vars, TypeInv, TypeOK, CallOK
<1>6. QED BY <1>1, <1>2, <1>3, <1>4, <1>5 DEF Next

LEMMA TypeInvariant == Spec => []TypeInv
<1>1. QED BY InitType, NextType, PTL DEF Spec

\* The state of the SD layer keeps its types, whatever fails and however often the
\* card is taken out and put in (src/Bsp/cSd.cpp).
THEOREM TypeCorrect == Spec => []TypeOK
<1>1. TypeInv => TypeOK
  BY DEF TypeInv
<1>2. QED BY <1>1, TypeInvariant, PTL

-----------------------------------------------------------------------------
(* Coherence: transfers do not fail, no card is pulled out during a call or put in *)
(* again, and 32-bit byte addresses reach every block.                             *)

LEMMA SmallCard ==
  ASSUME NEW block \in Blocks, Capacity * SECTOR_SIZE <= Word
  PROVE  CardBlock(block) = block
<1> DEFINE p == block * SECTOR_SIZE
<1>1. p \in Nat /\ p < Capacity * SECTOR_SIZE
  BY SdAssumption DEF Blocks
<1>2. p % Word = p
  <2> HIDE DEF p
  <2>1. Capacity * SECTOR_SIZE \in Nat
    BY SdAssumption
  <2>2. QED BY <1>1, <2>1, SdAssumption
<1>3. p \div SECTOR_SIZE = block
  BY SdAssumption DEF Blocks
<1>4. QED BY <1>2, <1>3 DEF CardBlock

Reliable == Faults \subseteq { "removed" }

LEMMA ReadArgument ==
  ASSUME call.op = "read"
  PROVE  BlockArgument(call) = call.block
BY DEF BlockArgument

LEMMA FillMatches ==
  ASSUME TypeInv, CoherentInv, ReadFill, Reliable, Capacity * SECTOR_SIZE <= Word
  PROVE  Sound(call.block)'
<1>1. call.block \in Blocks /\ call.op = "read" /\ live
  BY DEF TypeInv, TypeOK, CoherentInv, ReadFill, Asked
<1>2. CardBlock(BlockArgument(call)) = call.block
  BY <1>1, SmallCard, ReadArgument
<1>3. PICK moved \in Transferred(CacheSize, "readError") :
        cache' = [ i \in CacheSlots |->
                     IF i < moved /\ call.block + i \in Blocks THEN card[call.block + i]
                     ELSE cache[i] ]
  BY <1>2 DEF ReadFill
<1>4. moved = CacheSize
  BY <1>1 DEF Transferred, Reliable
<1>5. \A i \in CacheSlots : i < moved
  BY <1>4, SdAssumption DEF CacheSlots
<1>6. call'.block = call.block /\ card' = card
  BY DEF ReadFill, TypeInv, CallOK, CallType
<1>7. QED BY <1>3, <1>5, <1>6 DEF Sound

LEMMA NextCoherent ==
  ASSUME TypeInv, CoherentInv, [Next]_vars, Reliable, Capacity * SECTOR_SIZE <= Word
  PROVE  CoherentInv'
<1>1. CASE Ask
  BY <1>1 DEF Ask, AskRead, AskWrite, CoherentInv, Sound
<1>2. CASE Refuse \/ ReadHit
  BY <1>2 DEF Refuse, ReadHit, Asked, Answers, Idle, CoherentInv, Sound
<1>3. CASE ReadFill
  <2>1. call'.at = "filled" /\ UNCHANGED << present, live >>
    BY <1>3 DEF ReadFill, TypeInv, CallOK, CallType
  <2>2. QED BY <1>3, <2>1, FillMatches DEF CoherentInv
<1>4. CASE ReadDeliver
  <2>1. mReadCacheBlock' = call.block /\ Sound(call.block) /\ call'.at = "idle"
    BY <1>4, ReadArgument DEF ReadDeliver, TypeInv, CallOK, CoherentInv, Answers, Idle
  <2>2. QED BY <1>4, <2>1 DEF ReadDeliver, CoherentInv, Sound
<1>5. CASE WriteBlocks
  <2>1. call'.at \in { "programming", "written" } /\ UNCHANGED << present, live >>
    BY <1>5 DEF WriteBlocks, TypeInv, CallOK, CallType
  <2>2. QED BY <2>1 DEF CoherentInv
<1>6. CASE WriteProgrammed
  <2>1. call'.at = "written" /\ UNCHANGED << present, live >>
    BY <1>6 DEF WriteProgrammed, TypeInv, CallOK, CallType
  <2>2. QED BY <2>1 DEF CoherentInv
<1>7. CASE WriteReturn
  <2>1. \A i \in CacheSlots : mReadCacheBlock' + i \notin Blocks
    BY <1>7, SdAssumption DEF WriteReturn, CacheSlots, Blocks
  <2>2. QED BY <1>7, <2>1 DEF WriteReturn, Answers, Idle, CoherentInv, Sound
<1>8. CASE Remove
  BY <1>8 DEF Remove, CoherentInv, Sound
<1>9. CASE Insert
  BY <1>9 DEF Insert, Reliable
<1>10. CASE UNCHANGED vars
  BY <1>10 DEF vars, CoherentInv, Sound
<1>11. QED BY <1>1, <1>2, <1>3, <1>4, <1>5, <1>6, <1>7, <1>8, <1>9, <1>10 DEF Next, Serve

LEMMA CoherentInvariant ==
  ASSUME Reliable, Capacity * SECTOR_SIZE <= Word
  PROVE  Spec => [](TypeInv /\ CoherentInv)
<1>1. Init => CoherentInv
  BY SdAssumption DEF Init, CoherentInv, Idle, Sound, CacheSlots, Blocks
<1>2. TypeInv /\ CoherentInv /\ [Next]_vars => (TypeInv /\ CoherentInv)'
  BY NextType, NextCoherent
<1>3. QED BY InitType, <1>1, <1>2, PTL DEF Spec

\* Between two calls the cache agrees with the card: SD_WriteCached throws away what a
\* write makes stale, and SD_ReadCached tags only what it filled.
THEOREM CacheIsCoherent ==
  ASSUME Reliable, Capacity * SECTOR_SIZE <= Word
  PROVE  Spec => []CacheCoherent
<1>1. CoherentInv => CacheCoherent
  BY DEF CoherentInv, CacheCoherent, Sound
<1>2. QED BY <1>1, CoherentInvariant, PTL

-----------------------------------------------------------------------------
(* Refinement: a client that passes block numbers (the USB mass storage class), asking *)
(* for no more blocks at a time than the cache has.                                    *)

LEMMA Remainder ==
  ASSUME NEW x \in Nat
  PROVE  x % Word <= x /\ (x < Word => x % Word = x)
BY SdAssumption

\* A hit copies the blocks that were asked for.
LEMMA HitMatches ==
  ASSUME TypeInv, Sound(mReadCacheBlock), call.at = "asked", call.op = "read",
         Hit(call.block, call.count)
  PROVE  Copied(cache, call.block - mReadCacheBlock, call.count)
           = [ i \in 0 .. call.count - 1 |-> card[call.block + i] ]
<1>1. /\ call.block \in Blocks /\ call.count \in Nat /\ call.block + call.count <= Capacity
      /\ mReadCacheBlock \in Nat /\ CacheSize \in Nat /\ Capacity \in Nat /\ Capacity < Word
      /\ call.block \in Nat /\ Word \in Nat
  BY SdAssumption DEF TypeInv, TypeOK, CallOK, CallType, Blocks
<1>2. /\ (call.block + call.count) % Word = call.block + call.count
      /\ (mReadCacheBlock + CacheSize) % Word <= mReadCacheBlock + CacheSize
  <2>1. call.block + call.count \in Nat /\ call.block + call.count < Word
    BY <1>1
  <2>2. mReadCacheBlock + CacheSize \in Nat
    BY <1>1
  <2>3. QED BY <2>1, <2>2, Remainder
<1>3. /\ call.block >= mReadCacheBlock
      /\ call.block + call.count <= mReadCacheBlock + CacheSize
  <2>1. (mReadCacheBlock + CacheSize) % Word \in Nat
    BY <1>1, SdAssumption
  <2>2. QED BY <1>1, <1>2, <2>1 DEF Hit
<1>4. ASSUME NEW i \in 0 .. call.count - 1
      PROVE  /\ call.block - mReadCacheBlock + i \in CacheSlots
             /\ mReadCacheBlock + (call.block - mReadCacheBlock + i) = call.block + i
             /\ call.block + i \in Blocks
  BY <1>1, <1>3 DEF CacheSlots, Blocks
<1>5. \A i \in 0 .. call.count - 1 :
        cache[call.block - mReadCacheBlock + i] = card[call.block + i]
  BY <1>4 DEF Sound
<1>6. QED BY <1>4, <1>5 DEF Copied

\* So does the copy that follows a fill.
LEMMA DeliverMatches ==
  ASSUME TypeInv, Sound(call.block), call.at = "filled", MaxCount <= CacheSize
  PROVE  Copied(cache, 0, call.count) = [ i \in 0 .. call.count - 1 |-> card[call.block + i] ]
<1>1. /\ call.block \in Nat /\ call.count \in 0 .. MaxCount
      /\ call.block + call.count <= Capacity /\ CacheSize \in Nat /\ Capacity \in Nat
  BY SdAssumption DEF TypeInv, TypeOK, CallOK, CallType, Blocks
<1>2. ASSUME NEW i \in 0 .. call.count - 1
      PROVE  0 + i = i /\ i \in CacheSlots /\ call.block + i \in Blocks
  BY <1>1, SdAssumption DEF CacheSlots, Blocks
<1>3. \A i \in 0 .. call.count - 1 : cache[0 + i] = card[call.block + i]
  BY <1>2 DEF Sound
<1>4. QED BY <1>2, <1>3 DEF Copied

LEMMA RequestAt ==
  ASSUME TypeInv
  PROVE  /\ call.at = "idle" => Request = Idle
         /\ call.at \in { "asked", "filled" } => Request = [ call EXCEPT !.at = "asked" ]
         /\ call.at \in { "programming", "written" } => Request = [ call EXCEPT !.at = "done" ]
BY DEF TypeInv, CallOK, CallType, Request, Idle

LEMMA RequestAtNext ==
  ASSUME TypeInv'
  PROVE  /\ call'.at = "idle" => Request' = Idle
         /\ call'.at \in { "asked", "filled" } => Request' = [ call' EXCEPT !.at = "asked" ]
         /\ call'.at \in { "programming", "written" } => Request' = [ call' EXCEPT !.at = "done" ]
BY DEF TypeInv, CallOK, CallType, Request, Idle

LEMMA ImplementsInit == Init => Device!Init
<1> SUFFICES ASSUME Init PROVE Device!Init
  OBVIOUS
<1>1. Request = Idle
  BY InitType, RequestAt DEF Init, Idle
<1>2. QED BY <1>1 DEF Init, Device!Init, Device!Blocks, Device!Idle, Device!Silence, Blocks, Idle, Error

LEMMA ImplementsAsk ==
  ASSUME TypeInv, TypeInv', Ask
  PROVE  Device!Next
<1>1. PICK block \in Blocks, count \in 1 .. MaxCount :
        /\ block + count <= Capacity
        /\ \/ AskRead(block, count)
           \/ \E data \in [ 0 .. count - 1 -> Data ] : AskWrite(block, count, data)
  BY DEF Ask
<1>2. call.at = "idle" /\ Request.at = "idle"
  BY <1>1, RequestAt DEF AskRead, AskWrite, Idle
<1>3. CASE AskRead(block, count)
  <2>1. Request' = [ at |-> "asked", op |-> "read", block |-> block, count |-> count, data |-> << >> ]
    BY <1>3, RequestAtNext DEF AskRead
  <2>2. Device!AskRead(block, count)
    BY <1>2, <1>3, <2>1 DEF AskRead, Device!AskRead, Device!Silence, Error
  <2>3. QED BY <1>1, <2>2 DEF Device!Next, Device!Blocks, Blocks
<1>4. ASSUME NEW data \in [ 0 .. count - 1 -> Data ], AskWrite(block, count, data)
      PROVE  Device!Next
  <2>1. Request' = [ at |-> "asked", op |-> "write", block |-> block, count |-> count, data |-> data ]
    BY <1>4, RequestAtNext DEF AskWrite
  <2>2. Device!AskWrite(block, count, data)
    BY <1>2, <1>4, <2>1 DEF AskWrite, Device!AskWrite, Device!Silence, Error
  <2>3. QED BY <1>1, <2>2 DEF Device!Next, Device!Blocks, Blocks
<1>5. QED BY <1>1, <1>3, <1>4

\* A write transfer that moves everything replaces the blocks it names.
LEMMA WriteMatches ==
  ASSUME TypeInv, CoherentInv, Reliable, Capacity * SECTOR_SIZE <= Word, Client = "usb", WriteBlocks
  PROVE  /\ card' = Device!Replaced(card, call.block, call.count, call.data)
         /\ call' = [ call EXCEPT !.at = "programming" ]
<1>1. /\ call.block \in Blocks /\ live /\ BlockArgument(call) = call.block
  BY DEF TypeInv, TypeOK, CoherentInv, WriteBlocks, Asked, BlockArgument
<1>2. CardBlock(BlockArgument(call)) = call.block
  BY <1>1, SmallCard
<1>3. Transferred(call.count, "writeError") = { call.count }
  BY <1>1 DEF Transferred, Reliable
<1>4. /\ card' = [ b \in Blocks |-> IF b \in call.block .. call.block + call.count - 1
                                    THEN call.data[b - call.block] ELSE card[b] ]
      /\ call' = [ call EXCEPT !.at = "programming" ]
  BY <1>2, <1>3 DEF WriteBlocks
<1>5. QED BY <1>4 DEF Device!Replaced, Device!Blocks, Blocks

LEMMA ImplementsServe ==
  ASSUME TypeInv, TypeInv', CoherentInv, Serve, Reliable,
         Capacity * SECTOR_SIZE <= Word, MaxCount <= CacheSize, Client = "usb"
  PROVE  Device!Next \/ UNCHANGED Device!vars
<1> USE DEF Answers
<1>1. CASE Refuse
  <2>1. Request.at = "asked" /\ Request' = Idle /\ UNCHANGED card
    BY <1>1, RequestAt, RequestAtNext DEF Refuse, Idle, TypeInv, CallOK, CallType
  <2>2. QED BY <1>1, <2>1 DEF Refuse, Device!Refuse, Device!Next, Device!Idle, Device!Silence, Idle, Error
<1>2. CASE ReadHit
  <2>1. /\ Request = [ call EXCEPT !.at = "asked" ] /\ Request' = Idle
        /\ call.at = "asked" /\ call.op = "read"
    BY <1>2, RequestAt, RequestAtNext DEF ReadHit, Asked, Idle
  <2>2. answer' = Ok([ i \in 0 .. call.count - 1 |-> card[call.block + i] ])
    BY <1>2, <2>1, HitMatches, ReadArgument DEF ReadHit, CoherentInv
  <2>3. QED BY <1>2, <2>1, <2>2 DEF ReadHit, TypeInv, CallOK, CallType, Device!Read, Device!Next,
                                  Device!Idle, Idle, Ok
<1>3. CASE ReadFill
  <2>1. Request' = Request
    BY <1>3, RequestAt, RequestAtNext DEF ReadFill, Asked, TypeInv, CallOK, CallType
  <2>2. QED BY <1>3, <2>1 DEF ReadFill, Device!vars
<1>4. CASE ReadDeliver
  <2>1. /\ Request = [ call EXCEPT !.at = "asked" ] /\ Request' = Idle
        /\ call.at = "filled" /\ call.op = "read"
    BY <1>4, RequestAt, RequestAtNext DEF ReadDeliver, Idle, TypeInv, CallOK
  <2>2. answer' = Ok([ i \in 0 .. call.count - 1 |-> card[call.block + i] ])
    BY <1>4, <2>1, DeliverMatches DEF ReadDeliver, CoherentInv
  <2>3. QED BY <1>4, <2>1, <2>2 DEF ReadDeliver, TypeInv, CallOK, CallType, Device!Read, Device!Next,
                                  Device!Idle, Idle, Ok
<1>5. CASE WriteBlocks
  <2>1. /\ Request = [ call EXCEPT !.at = "asked" ]
        /\ Request' = [ call EXCEPT !.at = "done" ]
        /\ call.at = "asked" /\ call.op = "write"
    BY <1>5, WriteMatches, RequestAt, RequestAtNext DEF WriteBlocks, Asked, TypeInv, CallOK, CallType
  <2>2. QED BY <1>5, <2>1, WriteMatches DEF WriteBlocks, TypeInv, CallOK, CallType, Device!Write, Device!Next
<1>6. CASE WriteProgrammed
  <2>1. Request' = Request
    BY <1>6, RequestAt, RequestAtNext DEF WriteProgrammed, TypeInv, CallOK, CallType
  <2>2. QED BY <1>6, <2>1 DEF WriteProgrammed, Device!vars
<1>7. CASE WriteReturn
  <2>1. Request.at = "done" /\ Request' = Idle
    BY <1>7, RequestAt, RequestAtNext DEF WriteReturn, Idle, TypeInv, CallOK, CallType
  <2>2. QED BY <1>7, <2>1 DEF WriteReturn, Device!Written, Device!Next, Device!Idle, Idle, Ok
<1>8. QED BY <1>1, <1>2, <1>3, <1>4, <1>5, <1>6, <1>7 DEF Serve

LEMMA ImplementsNext ==
  ASSUME TypeInv, TypeInv', CoherentInv, [Next]_vars, Reliable,
         Capacity * SECTOR_SIZE <= Word, MaxCount <= CacheSize, Client = "usb"
  PROVE  [Device!Next]_(Device!vars)
<1>1. CASE Ask
  BY <1>1, ImplementsAsk
<1>2. CASE Serve
  BY <1>2, ImplementsServe
<1>3. CASE Remove
  BY <1>3 DEF Remove, Request, Device!vars
<1>4. CASE Insert
  BY <1>4 DEF Insert, Reliable
<1>5. CASE UNCHANGED vars
  BY <1>5 DEF vars, Request, Device!vars
<1>6. QED BY <1>1, <1>2, <1>3, <1>4, <1>5 DEF Next

\* The cache cannot be seen: the SD layer (SD_ReadCached and SD_WriteCached) implements
\* a plain disk for the USB mass storage class.
THEOREM ImplementsBlockDevice ==
  ASSUME Reliable, Capacity * SECTOR_SIZE <= Word, MaxCount <= CacheSize, Client = "usb"
  PROVE  Spec => IsBlockDevice
<1>1. TypeInv /\ TypeInv' /\ CoherentInv /\ [Next]_vars => [Device!Next]_(Device!vars)
  BY ImplementsNext
<1>2. Spec => [](TypeInv /\ CoherentInv)
  BY CoherentInvariant
<1>3. QED BY <1>1, <1>2, ImplementsInit, PTL DEF Spec, IsBlockDevice, Device!Spec

=============================================================================
