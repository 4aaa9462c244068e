---------------------------- MODULE BrowserQueue ----------------------------
(***************************************************************************)
(* The browser transport: a WebAssembly module assembled by hand           *)
(* (transports/tools/wasmasm.mjs), a process-wide FIFO in linear memory.   *)
(*                                                                         *)
(* The host copies every argument into memory at an address it asks        *)
(* ntx_alloc for, a bump allocator that begins anew at Base when a block   *)
(* would not end before Limit, whatever is still in use there, and         *)
(* whatever the block's size.  ntx_send appends a length prefix and the    *)
(* frame to the queue at Q; ntx_poll hands out the whole queue.            *)
(*                                                                         *)
(*     Base ........ Limit ... Q ............ Q + Cap ........             *)
(*     heap                    queue          output of ntx_poll           *)
(*                                                                         *)
(* Memory is counted in cells; the length prefix takes one.  A call runs   *)
(* to its end before the next one begins.  What the heap holds after a     *)
(* call is never read again and is left out: the queue is what lasts.      *)
(***************************************************************************)
EXTENDS Integers, SequencesExt

CONSTANTS
  Base, Limit,   \* the heap of ntx_alloc: 0x1000, 0x3f00
  Q, Cap,        \* address and size of the queue: 0x4000, 0x4000
  Align,         \* 8 bytes
  KeySize,       \* of a public key or a secret: 32 bytes
  IdSize,        \* of a mailbox id: 16 bytes
  Sizes,         \* sizes of the frames the host sends
  Tags,          \* tells frames of one size apart
  NoTag

ASSUME LayoutAssumption ==
  /\ {Base, Limit, Q, Cap, Align, KeySize, IdSize} \subseteq Nat \ {0}
  /\ Base % Align = 0 /\ KeySize % Align = 0 /\ IdSize % Align = 0
  /\ Limit % Align = 0
  /\ Base + 2 * KeySize < Limit /\ Limit <= Q /\ IdSize <= KeySize
  /\ Sizes \subseteq Nat \ {0} /\ NoTag \notin Tags

VARIABLES
  running,   \* global 0
  bump,      \* global 2
  queue,     \* the memory from Q to Q + qlen, qlen being global 1
  (* history *)
  accepted,  \* frames taken and not handed out yet
  overrun    \* a frame that does not fit below Q was put into memory since

vars == << running, bump, queue, accepted, overrun >>

Frame == [ size : Sizes, tag : Tags ]

Top == Q + 2 * Cap    \* what a frame may reach at most

(***************************************************************************)
(* A cell holds the size of a frame (at 0, of whatever frame), a frame's   *)
(* content at a place of it, or something else (size 0).                   *)
(***************************************************************************)
Cell(size, tag, at) == [ size |-> size, tag |-> tag, at |-> at ]

Length(n)  == Cell(n, NoTag, 0)
Content(f) == [ i \in 1 .. f.size |-> Cell(f.size, f.tag, i) ]
Other      == Cell(0, NoTag, 0)

-----------------------------------------------------------------------------
(* Memory                                                                  *)

AlignUp(a) == ((a + Align - 1) \div Align) * Align

\* Mutated Alloc: only the beginning of the block is compared.
AllocUnchecked(b, n) == IF b > Limit THEN Base ELSE b

\* ntx_alloc of n bytes, the bump pointer being b.
Alloc(b, n) == IF b + n > Limit THEN Base ELSE b

After(b, n) == AlignUp(Alloc(b, n) + n)

\* Memory m with the cells c copied to address p.
Written(m, p, c) ==
  [ a \in DOMAIN m |->
      IF a \in p .. (p + Len(c) - 1) THEN c[a - p + 1] ELSE m[a] ]

Memory ==
  [ a \in Base .. Top |->
      IF a \in Q .. (Q + Len(queue) - 1) THEN queue[a - Q + 1] ELSE Other ]

\* Cells of memory m from address p on.
Cells(m, p, n) == [ i \in 1 .. n |-> m[p + i - 1] ]

-----------------------------------------------------------------------------

Init ==
  /\ running = FALSE
  /\ bump = Base
  /\ queue = << >>
  /\ accepted = << >>
  /\ overrun = FALSE

Start ==
  /\ running' = TRUE
  /\ UNCHANGED << bump, queue, accepted, overrun >>

Stop ==
  /\ running' = FALSE
  /\ UNCHANGED << bump, queue, accepted, overrun >>

\* ntx_attach does nothing; its arguments, an id and a secret, are put.
Attach ==
  /\ bump' = After(After(bump, IdSize), KeySize)
  /\ UNCHANGED << running, queue, accepted, overrun >>

\* ntx_detach: an id is put.
Detach ==
  /\ bump' = After(bump, IdSize)
  /\ UNCHANGED << running, queue, accepted, overrun >>

(***************************************************************************)
(* Memory once the host has put the frame and, after it, the recipient.    *)
(***************************************************************************)
WithArguments(f) ==
  LET framed == Written(Memory, Alloc(bump, f.size), Content(f))
  IN  Written(framed, Alloc(After(bump, f.size), KeySize),
              [ i \in 1 .. KeySize |-> Other ])

\* Mutated Fits: without the prefix.
FitsTight(f) == Len(queue) + f.size <= Cap

Fits(f) == Len(queue) + f.size + 1 <= Cap

\* Mutated Appended: the queue grows by the frame and not by its prefix.
AppendedShort(f) ==
  LET dst  == Q + Len(queue)
      size == Written(WithArguments(f), dst, << Length(f.size) >>)
      m    == Written(size, dst + 1, Cells(size, Alloc(bump, f.size), f.size))
  IN  Cells(m, Q, Len(queue) + f.size)

(***************************************************************************)
(* ntx_send, the frame being where the host has put it: first the prefix   *)
(* is stored, then the frame copied.                                       *)
(***************************************************************************)
Appended(f) ==
  LET dst  == Q + Len(queue)
      size == Written(WithArguments(f), dst, << Length(f.size) >>)
      m    == Written(size, dst + 1, Cells(size, Alloc(bump, f.size), f.size))
  IN  Cells(m, Q, Len(queue) + f.size + 1)

Put(f) ==
  /\ bump' = After(After(bump, f.size), KeySize)
  /\ overrun' = (overrun \/ f.size > Q - Base)

Send(f) ==
  /\ running
  /\ Fits(f)
  /\ Put(f)
  /\ queue' = Appended(f)
  /\ accepted' = Append(accepted, f)
  /\ UNCHANGED running

\* Returns 1 or 3.  The arguments have been put into memory all the same.
RefuseSend(f) ==
  /\ ~ running \/ ~ Fits(f)
  /\ Put(f)
  /\ queue' = Cells(WithArguments(f), Q, Len(queue))
  /\ UNCHANGED << running, accepted >>

\* ntx_poll, whatever the mailbox and however many frames were asked for.
Poll ==
  /\ bump' = After(bump, IdSize)
  /\ queue' = << >>
  /\ accepted' = << >>
  /\ overrun' = FALSE
  /\ UNCHANGED running

Next ==
  \/ Start \/ Stop \/ Attach \/ Detach \/ Poll
  \/ \E f \in Frame : Send(f) \/ RefuseSend(f)

Spec == Init /\ [][Next]_vars

-----------------------------------------------------------------------------

TypeOK ==
  /\ running \in BOOLEAN
  /\ bump \in Base .. Top
  /\ bump % Align = 0
  /\ Len(queue) <= Cap
  /\ accepted \in Seq(Frame)
  /\ overrun \in BOOLEAN

(***************************************************************************)
(* The largest frame that is safe wherever it is put: if the recipient     *)
(* begins anew at Base, the frame begins behind it.                        *)
(***************************************************************************)
SafeSize == Limit - Base - 2 * KeySize + Align

Encoded ==
  FlattenSeq([ i \in 1 .. Len(accepted) |->
                 << Length(accepted[i].size) >> \o Content(accepted[i]) ])

TooLarge(cell) == cell.at > 0 /\ cell.size > SafeSize

(***************************************************************************)
(* "frames come back BE32-prefixed, in order" (wasm-package.test.mjs:89)   *)
(* and intact, however frames, refused sends and other calls have filled   *)
(* the heap and wrapped it: for frames up to SafeSize (0x2ec8 bytes) among *)
(* frames up to 0x3000 bytes, whose content, but not whose prefix, may be  *)
(* lost.                                                                   *)
(***************************************************************************)
FramesIntact ==
  ~ overrun =>
    /\ Len(queue) = Len(Encoded)
    /\ \A j \in 1 .. Len(queue) : queue[j] = Encoded[j] \/ TooLarge(Encoded[j])

=============================================================================
