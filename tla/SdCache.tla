------------------------------- MODULE SdCache -------------------------------
(***************************************************************************)
(* The SD layer, src/Bsp/cSd.cpp, and the disk functions of the FAT file   *)
(* system on top of it, src/fatfs/diskio.cpp: reads go through a cache of  *)
(* CacheSize consecutive blocks, writes go to the card and throw the cache *)
(* away.                                                                   *)
(*                                                                         *)
(* One call is served at a time: in USB mode all calls come from the one   *)
(* interrupt of the USB controller, otherwise from under the mutex of the  *)
(* volume (MutualExclusion of FatFsLock).  Between the steps of a call the *)
(* card may be pulled out, and a transfer may fail anywhere.               *)
(***************************************************************************)
EXTENDS Naturals

CONSTANTS
  Capacity,      \* the number of blocks of the card
  MaxCount,      \* the largest number of blocks in one request
  Data,          \* the contents a block of the card may have
  Junk,          \* what malloc leaves in memory
  CacheSize,     \* mReadCacheSize
  InitialBlock,  \* mReadCacheBlock before the first read, 0xFFFFFFB0
  EvictedBlock,  \* mReadCacheBlock after a write, 0xFFFFFFF0
  SECTOR_SIZE,   \* bytes in a block
  Word,          \* 2^32: addresses and block numbers have 32 bits
  Client,        \* "usb" or "fat": who calls
  Faults         \* what may go wrong: a subset of FaultKinds

FaultKinds ==
  { "removed",     \* the card is taken out between two calls
    "pulled",      \* the card is taken out during a call
    "inserted",    \* a card is put in again; nobody initialises it
    "readError",   \* a read transfer stops early
    "writeError" } \* a write transfer stops early

ASSUME SdAssumption ==
  /\ Capacity \in Nat \ {0} /\ MaxCount \in Nat \ {0} /\ CacheSize \in Nat \ {0}
  /\ Junk \notin Data
  /\ SECTOR_SIZE \in Nat \ {0} /\ Word \in Nat \ {0}
  /\ InitialBlock \in Capacity .. Word - 1
  /\ EvictedBlock \in Capacity .. Word - 1
  /\ Client \in { "usb", "fat" }
  /\ Faults \subseteq FaultKinds

VARIABLES
  card,            \* the contents of the card
  present,         \* SD_present: the card detect pin
  live,            \* the card has been initialised since it was put in
  cache,           \* mReadCache
  mReadCacheBlock, \* the block that mReadCache starts with
  call,            \* the call being served
  answer           \* the last answer

vars == << card, present, live, cache, mReadCacheBlock, call, answer >>

Blocks == 0 .. Capacity - 1
CacheSlots == 0 .. CacheSize - 1
Ok(data) == [ ok |-> TRUE, data |-> data ]
Error == [ ok |-> FALSE, data |-> << >> ]
Idle == [ at |-> "idle", op |-> "none", block |-> 0, count |-> 0, data |-> << >> ]

-----------------------------------------------------------------------------
(* Addresses. *)

\* The block that a client's block or sector number becomes: diskWrite hands on a
\* byte address, everybody else the number itself.
BlockArgument(c) ==
  IF Client = "fat" /\ c.op = "write" THEN (c.block * SECTOR_SIZE) % Word ELSE c.block

\* SD_Read and SD_Write compute a byte address in 32 bits, the HAL divides it again.
CardBlock(block) == ((block * SECTOR_SIZE) % Word) \div SECTOR_SIZE

\* Mutant: the upper bound of the hit test allows one block too many.
HitOneMore(block, count) ==
  /\ block >= mReadCacheBlock
  /\ (block + count) % Word <= (mReadCacheBlock + CacheSize + 1) % Word

\* The hit test of SD_ReadCached.
Hit(block, count) ==
  /\ block >= mReadCacheBlock
  /\ (block + count) % Word <= (mReadCacheBlock + CacheSize) % Word

\* The first count blocks from slot first on, as memcpy finds them.
Copied(memory, first, count) ==
  [ i \in 0 .. count - 1 |-> IF first + i \in CacheSlots THEN memory[first + i] ELSE Junk ]

-----------------------------------------------------------------------------
(* Requests. *)

AskRead(block, count) ==
  /\ call.at = "idle"
  /\ call' = [ at |-> "asked", op |-> "read", block |-> block, count |-> count, data |-> << >> ]
  /\ answer' = Error
  /\ UNCHANGED << card, present, live, cache, mReadCacheBlock >>

AskWrite(block, count, data) ==
  /\ call.at = "idle"
  /\ call' = [ at |-> "asked", op |-> "write", block |-> block, count |-> count, data |-> data ]
  /\ answer' = Error
  /\ UNCHANGED << card, present, live, cache, mReadCacheBlock >>

Asked(op) == call.at = "asked" /\ call.op = op /\ present

Answers(a) == call' = Idle /\ answer' = a

\* Mutant: without a card the call waits for one.
RefuseNever == call.at = "asked" /\ ~present /\ UNCHANGED vars

\* Without a card both functions return -1 at once.
Refuse ==
  /\ call.at = "asked" /\ ~present
  /\ Answers(Error)
  /\ UNCHANGED << card, present, live, cache, mReadCacheBlock >>

ReadHit ==
  /\ Asked("read")
  /\ Hit(BlockArgument(call), call.count)
  /\ Answers(Ok(Copied(cache, BlockArgument(call) - mReadCacheBlock, call.count)))
  /\ UNCHANGED << card, present, live, cache, mReadCacheBlock >>

\* How many of the blocks asked for a transfer moves: none without an initialised
\* card, all of them unless it fails.
Transferred(count, fault) ==
  IF ~live THEN { 0 }
  ELSE IF fault \in Faults THEN 0 .. count ELSE { count }

\* SD_Read of a whole cache: blocks past the end of the card never come, and the
\* result is not looked at.
ReadFill ==
  /\ Asked("read")
  /\ ~Hit(BlockArgument(call), call.count)
  /\ \E moved \in Transferred(CacheSize, "readError") :
       cache' = [ i \in CacheSlots |->
                    LET b == CardBlock(BlockArgument(call)) + i
                    IN  IF i < moved /\ b \in Blocks THEN card[b] ELSE cache[i] ]
  /\ call' = [ call EXCEPT !.at = "filled" ]
  /\ UNCHANGED << card, present, live, mReadCacheBlock, answer >>

\* Mutant: the cache is tagged with the block after the ones it returns.
ReadDeliverNext ==
  /\ call.at = "filled"
  /\ Answers(Ok(Copied(cache, 0, call.count)))
  /\ mReadCacheBlock' = BlockArgument(call) + call.count
  /\ UNCHANGED << card, present, live, cache >>

\* The first blocks of the cache are copied out, and the cache is tagged.
ReadDeliver ==
  /\ call.at = "filled"
  /\ Answers(Ok(Copied(cache, 0, call.count)))
  /\ mReadCacheBlock' = BlockArgument(call)
  /\ UNCHANGED << card, present, live, cache >>

\* SD_Write: blocks that the card does not have go nowhere.  A transfer that moved
\* everything ends with a wait for the card to be back in its transfer state.
WriteBlocks ==
  /\ Asked("write")
  /\ \E moved \in Transferred(call.count, "writeError") :
       /\ card' = [ b \in Blocks |->
                      LET first == CardBlock(BlockArgument(call))
                      IN  IF b \in first .. first + moved - 1 THEN call.data[b - first]
                          ELSE card[b] ]
       /\ call' = [ call EXCEPT !.at = IF moved = call.count THEN "programming" ELSE "written" ]
  /\ UNCHANGED << present, live, cache, mReadCacheBlock, answer >>

WriteProgrammed ==
  /\ call.at = "programming" /\ live
  /\ call' = [ call EXCEPT !.at = "written" ]
  /\ UNCHANGED << card, present, live, cache, mReadCacheBlock, answer >>

\* Mutant: a write leaves the cache as it is.
WriteReturnKeep ==
  /\ call.at = "written"
  /\ Answers(Ok(<< >>))
  /\ UNCHANGED << card, present, live, cache, mReadCacheBlock >>

\* SD_WriteCached throws the cache away and reports success, whatever SD_Write returned.
WriteReturn ==
  /\ call.at = "written"
  /\ Answers(Ok(<< >>))
  /\ mReadCacheBlock' = EvictedBlock
  /\ UNCHANGED << card, present, live, cache >>

-----------------------------------------------------------------------------
(* The card. *)

Remove ==
  /\ present
  /\ \/ "removed" \in Faults /\ call.at = "idle"
     \/ "pulled" \in Faults /\ call.at # "idle"
  /\ present' = FALSE /\ live' = FALSE
  /\ UNCHANGED << card, cache, mReadCacheBlock, call, answer >>

\* Any card; SD_Init is not called again.
Insert ==
  /\ "inserted" \in Faults
  /\ ~present /\ present' = TRUE
  /\ \E d \in Data : card' = [ b \in Blocks |-> d ]
  /\ UNCHANGED << live, cache, mReadCacheBlock, call, answer >>

-----------------------------------------------------------------------------
Init ==
  /\ card \in [ Blocks -> Data ]
  /\ present = TRUE /\ live = TRUE
  /\ cache = [ i \in CacheSlots |-> Junk ]
  /\ mReadCacheBlock = InitialBlock
  /\ call = Idle /\ answer = Error

Ask ==
  \E block \in Blocks, count \in 1 .. MaxCount :
    /\ block + count <= Capacity
    /\ \/ AskRead(block, count)
       \/ \E data \in [ 0 .. count - 1 -> Data ] : AskWrite(block, count, data)

Serve == Refuse \/ ReadHit \/ ReadFill \/ ReadDeliver \/ WriteBlocks \/ WriteProgrammed \/ WriteReturn

Next == Ask \/ Serve \/ Remove \/ Insert

Spec == Init /\ [][Next]_vars

\* The code of a call runs on.
FairSpec == Spec /\ WF_vars(Serve)

-----------------------------------------------------------------------------
(* Properties. *)

\* The types of the state.
TypeOK ==
  /\ card \in [ Blocks -> Data ]
  /\ present \in BOOLEAN /\ live \in BOOLEAN
  /\ cache \in [ CacheSlots -> Data \cup { Junk } ]
  /\ mReadCacheBlock \in Blocks \cup { InitialBlock, EvictedBlock }
  /\ call.at \in { "idle", "asked", "filled", "programming", "written" }
  /\ call.op \in { "none", "read", "write" }
  /\ call.block \in Blocks /\ call.count \in 0 .. MaxCount
  /\ answer.ok \in BOOLEAN

\* Between two calls the cache agrees with the card, as far as its tag says it is
\* valid and the card has such a block: no write is missed by a later hit.
CacheCoherent ==
  call.at = "idle" =>
    \A i \in CacheSlots :
      mReadCacheBlock + i \in Blocks => cache[i] = card[mReadCacheBlock + i]

\* The request that a client sees being served.
Request ==
  [ call EXCEPT !.at = CASE @ \in { "asked", "filled" } -> "asked"
                         [] @ \in { "programming", "written" } -> "done"
                         [] OTHER -> @ ]

Device == INSTANCE BlockDevice WITH disk <- card, request <- Request, answer <- answer

\* The cache cannot be seen: to a client the SD layer is a plain disk.
IsBlockDevice == Device!Spec

\* Success means that what was asked for has happened (RES_OK, "Successful", and
\* RES_ERROR, "R/W Error", of diskio.h): a read returned the blocks of the card, a
\* written block is on it.
Fulfilled ==
  \A i \in 0 .. call.count - 1 :
    IF call.op = "read" THEN answer'.data[i] = card[call.block + i]
    ELSE card[call.block + i] = call.data[i]

SuccessMeansDone ==
  [][ (call.at # "idle" /\ call'.at = "idle" /\ answer'.ok) => Fulfilled ]_vars

\* Every call is answered, in whatever state the card is, unless the card is pulled
\* out while a write waits for it.
CallsAnswered == call.at # "idle" ~> (call.at = "idle" \/ (call.at = "programming" /\ ~live))

=============================================================================
