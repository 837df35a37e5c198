-------------------------------- MODULE CatchUp --------------------------------
(***************************************************************************)
(* The scraper: `get_logs` runs CatchUpAzimuthLogs, which fetches the      *)
(* Azimuth events in ranges of blocks and answers the node's errors by     *)
(* adapting them, and then CatchUpNaiveLogs, which fetches the batches in  *)
(* one query and the transactions that hold their data a few at a time.    *)
(* Every row is its own database transaction.                              *)
(*                                                                         *)
(* The Ethereum node is external: the chain only grows, an answer holds    *)
(* all the events of the range up to the chain's height, or is an error.   *)
(*                                                                         *)
(* Sources: pkg/scraper/azimuth.go, pkg/scraper/naive.go,                  *)
(* pkg/db/contract.go, pkg/db/events.go, cmd/main.go.                      *)
(***************************************************************************)
EXTENDS EventLog, FiniteSetsExt

CONSTANTS
    BlockOf,      \* the block of each event
    TxOf,         \* and the Ethereum transaction that emitted it
    StartBlock,   \* start_block of "azimuth" and "naive"
    StartHeight,  \* the chain's height before the first get_logs
    MaxHeight,    \* bound on the chain's height
    Chunk,        \* the first range of blocks asked for (100000)
    Few,          \* fewer logs than this, and the range is doubled (1000)
    MaxRounds,    \* queries in one CatchUpAzimuthLogs (1000)
    RpcBatch,     \* transactions asked for at once (MAX_BATCH_SIZE)
    NodeErrors,   \* the errors the node may give
    MaxDeaths     \* bound on the times get_logs fails or is killed

VARIABLES
    stored,       \* the events in the ethereum_events table
    filled,       \* those that have their data
    fetched,      \* latest_block_fetched of each contract
    height,       \* the chain's
    at,           \* where get_logs is, "down" when it does not run
    latest, from, to, batch_size, round,
    got,          \* logs of the last answer that are not saved yet
    parsed_logs,  \* batches whose data is still to be fetched
    asked, txs,   \* those asked for at once, and the answers left to store
    busy,         \* is the node unavailable?
    deaths,
    failed        \* has a get_logs not come to its end by itself?

tables  == <<stored, filled>>
ranges  == <<latest, from, to, batch_size, round>>
lists   == <<got, parsed_logs, asked, txs>>
outside == <<height, busy>>
ends    == <<deaths, failed>>
vars == <<tables, fetched, ranges, lists, outside, at, ends>>

Contract == {"azimuth", "naive"}

ASSUME ChainAssumption ==
    /\ BlockOf \in [Event -> 1..MaxHeight]
    /\ \A e, f \in Event : e <= f => BlockOf[e] <= BlockOf[f]
    /\ StartBlock \in [Contract -> 1..MaxHeight]
    /\ \A e \in Event :
          BlockOf[e] >= StartBlock[IF e \in AzimuthLogs THEN "azimuth" ELSE "naive"]
    /\ NodeErrors \subseteq {"too-many", "unavailable"}
    /\ {MaxHeight, Chunk, Few, MaxRounds, RpcBatch, MaxDeaths} \subseteq Nat
    /\ StartHeight \in 1..MaxHeight
    /\ Chunk > 0 /\ RpcBatch > 0

LogsBetween(S, first, last) ==
    {e \in S : /\ BlockOf[e] \in first..last
               /\ BlockOf[e] <= height}

(* SetLatestContractBlockFetched.                                          *)
Watermark(c, block) == [fetched EXCEPT ![c] = Max({@, block})]

(* Mutant: from the beginning each time. *)
FromStart(c) == StartBlock[c]

Resume(c) == Max({StartBlock[c], fetched[c]})

-----------------------------------------------------------------------------

Init == /\ stored = {}
        /\ filled = {}
        /\ fetched = [c \in Contract |-> 0]
        /\ height = StartHeight
        /\ at = "down"
        /\ latest = 0 /\ from = 0 /\ to = 0 /\ batch_size = 0 /\ round = 0
        /\ got = {} /\ parsed_logs = {} /\ asked = {} /\ txs = {}
        /\ busy = FALSE
        /\ deaths = 0
        /\ failed = FALSE

(* The environment. *)
Mine == /\ height < MaxHeight
        /\ height' = height + 1
        /\ UNCHANGED <<tables, fetched, ranges, lists, busy, at, ends>>

Overload == /\ "unavailable" \in NodeErrors
            /\ ~busy
            /\ busy' = TRUE
            /\ UNCHANGED <<tables, fetched, ranges, lists, height, at, ends>>

Recover == /\ busy
           /\ busy' = FALSE
           /\ UNCHANGED <<tables, fetched, ranges, lists, height, at, ends>>

Stop == /\ at' = "down"
        /\ latest' = 0 /\ from' = 0 /\ to' = 0 /\ batch_size' = 0 /\ round' = 0
        /\ got' = {} /\ parsed_logs' = {} /\ asked' = {} /\ txs' = {}

(* log.Fatalf, a panic or a kill, at any time: what is saved stays.        *)
Die == /\ at # "down"
       /\ deaths < MaxDeaths
       /\ deaths' = deaths + 1
       /\ failed' = TRUE
       /\ Stop
       /\ UNCHANGED <<tables, fetched, outside>>

-----------------------------------------------------------------------------

(* get_logs: the first query of CatchUpAzimuthLogs starts with the last    *)
(* block already fetched.                                                  *)
GetLogs == /\ at = "down"
           /\ ~busy
           /\ at' = "azimuth"
           /\ latest' = height
           /\ from' = Resume("azimuth")
           /\ to' = from' + Chunk - 1
           /\ batch_size' = Chunk
           /\ round' = 0
           /\ UNCHANGED <<tables, fetched, lists, outside, ends>>

Looping == at = "azimuth" /\ round < MaxRounds /\ from < latest

(* An answer.  The range may reach beyond `latest`, and blocks mined since *)
(* are in it.  A range that ends before it starts is empty; a negative end *)
(* is no block number (go-ethereum takes -1 to -4 for tags such as         *)
(* "latest", which is left out: an end that close to 0 takes a contract    *)
(* that starts in the first blocks of the chain).  The next range is set   *)
(* once the logs are saved.                                                *)
FilterLogs == /\ Looping
              /\ to >= 0
              /\ ~busy
              /\ got' = LogsBetween(AzimuthLogs, from, to)
              /\ batch_size' = IF Cardinality(got') < Few THEN 2 * batch_size
                               ELSE batch_size
              /\ at' = "save-azimuth"
              /\ UNCHANGED <<tables, fetched, latest, from, to, round,
                             parsed_logs, asked, txs, outside, ends>>

(* Error -32005, with the block up to which the node would answer.         *)
TooManyResults(recommended) ==
    /\ Looping
    /\ "too-many" \in NodeErrors
    /\ recommended \in from..(to - 1)
    /\ to' = recommended
    /\ batch_size' = recommended - from
    /\ round' = round + 1
    /\ UNCHANGED <<tables, fetched, latest, from, lists, outside, at, ends>>

(* Mutant: the round not counted. *)
UnavailableUncounted ==
    /\ Looping
    /\ busy
    /\ to' = 0
    /\ batch_size' = 0 - from
    /\ UNCHANGED <<tables, fetched, latest, from, round, lists, outside, at, ends>>

(* Error -32603: check_error returns 0 for the block as well.              *)
Unavailable == /\ Looping
               /\ busy
               /\ to' = 0
               /\ batch_size' = 0 - from
               /\ round' = round + 1
               /\ UNCHANGED <<tables, fetched, latest, from, lists, outside, at, ends>>

(* Other errors are fatal: such as a range that ends before it starts, and *)
(* any error of CatchUpNaiveLogs.                                          *)
Fatal == /\ (Looping /\ ~busy /\ to < from) \/ (at = "azimuth" /\ ~Looping /\ busy)
         /\ Stop
         /\ failed' = TRUE
         /\ UNCHANGED <<tables, fetched, outside, deaths>>

(* Mutant: the row that is already there left as it is. *)
SaveOrIgnore(e) ==
    /\ at \in {"save-azimuth", "save-naive"}
    /\ Least(got, e)
    /\ stored' = stored \cup {e}
    /\ filled' = IF e \in AzimuthLogs THEN filled \cup {e} ELSE filled
    /\ got' = got \ {e}
    /\ parsed_logs' = IF e \in AzimuthLogs THEN parsed_logs ELSE parsed_logs \cup {e}
    /\ UNCHANGED <<fetched, outside, ranges, asked, txs, at, ends>>

(* A plain insert, of a batch without its data: the row that is already    *)
(* there panics.                                                           *)
SaveEvent(e) ==
    /\ at \in {"save-azimuth", "save-naive"}
    /\ Least(got, e)
    /\ UNCHANGED <<fetched, outside>>
    /\ IF e \in stored
       THEN /\ Stop
            /\ failed' = TRUE
            /\ UNCHANGED <<tables, deaths>>
       ELSE /\ stored' = stored \cup {e}
            /\ filled' = IF e \in AzimuthLogs THEN filled \cup {e} ELSE filled
            /\ got' = got \ {e}
            /\ parsed_logs' = IF e \in AzimuthLogs THEN parsed_logs
                              ELSE parsed_logs \cup {e}
            /\ UNCHANGED <<ranges, asked, txs, at, ends>>

(* Mutant: the end of the range recorded as fetched, mined or not. *)
NextRangeUncapped ==
    /\ at = "save-azimuth"
    /\ got = {}
    /\ fetched' = Watermark("azimuth", to)
    /\ from' = to + 1
    /\ to' = from' + batch_size - 1
    /\ round' = round + 1
    /\ at' = "azimuth"
    /\ UNCHANGED <<tables, latest, batch_size, lists, outside, ends>>

NextRange == /\ at = "save-azimuth"
             /\ got = {}
             /\ fetched' = Watermark("azimuth", Min({latest, to}))
             /\ from' = to + 1
             /\ to' = from' + batch_size - 1
             /\ round' = round + 1
             /\ at' = "azimuth"
             /\ UNCHANGED <<tables, latest, batch_size, lists, outside, ends>>

(* CatchUpNaiveLogs, with a look of its own at the chain's height.         *)
CatchUpNaive == /\ at = "azimuth"
                /\ ~Looping
                /\ ~busy
                /\ latest' = height
                /\ got' = LogsBetween(Event \ AzimuthLogs, Resume("naive"), height)
                /\ at' = "save-naive"
                /\ UNCHANGED <<tables, fetched, from, to, batch_size, round,
                               parsed_logs, asked, txs, outside, ends>>

(* Mutant: the blocks recorded as fetched before the data is. *)
WatermarkFirst == /\ at = "save-naive"
                  /\ got = {}
                  /\ fetched' = Watermark("naive", latest)
                  /\ at' = "request"
                  /\ UNCHANGED <<tables, ranges, lists, outside, ends>>

GetTransactionData == /\ at = "save-naive"
                      /\ got = {}
                      /\ at' = "request"
                      /\ UNCHANGED <<tables, fetched, ranges, lists, outside, ends>>

(* The answers come all together, or one of them is error -32603; any      *)
(* other error is the end (Die).                                           *)
BatchCall == /\ at = "request"
             /\ parsed_logs # {}
             /\ asked' = First(RpcBatch, parsed_logs)
             /\ txs' = asked'
             /\ parsed_logs' = parsed_logs \ asked'
             /\ at' = IF busy THEN "retry" ELSE "answers"
             /\ UNCHANGED <<tables, fetched, ranges, got, outside, ends>>

(* The loop asks for a copy of the element again and never looks at the    *)
(* answer: its condition is a variable set once, before the first round.   *)
RetryElement == /\ at = "retry"
                /\ UNCHANGED vars

(* logs_by_txhash has one log for each transaction, the last.              *)
LogOf(e) == Max({f \in asked : TxOf[f] = TxOf[e]})

SmuggleData(e) ==
    /\ at = "answers"
    /\ Least(txs, e)
    /\ filled' = filled \cup {LogOf(e)}
    /\ txs' = txs \ {e}
    /\ UNCHANGED <<stored, fetched, ranges, got, parsed_logs, asked, outside, at, ends>>

NextRequest == /\ at = "answers"
               /\ txs = {}
               /\ fetched' = Watermark("naive", BlockOf[Max(asked)])
               /\ asked' = {}
               /\ at' = "request"
               /\ UNCHANGED <<tables, ranges, got, parsed_logs, txs, outside, ends>>

(* Mutant: only whole requests made. *)
DoneEarly == /\ at = "request"
             /\ Cardinality(parsed_logs) < RpcBatch
             /\ fetched' = Watermark("naive", latest)
             /\ Stop
             /\ UNCHANGED <<tables, outside, ends>>

Done == /\ at = "request"
        /\ parsed_logs = {}
        /\ fetched' = Watermark("naive", latest)
        /\ Stop
        /\ UNCHANGED <<tables, outside, ends>>

-----------------------------------------------------------------------------

Run == \/ FilterLogs
       \/ Unavailable
       \/ Fatal
       \/ \E r \in 0..(2 * MaxHeight) : TooManyResults(r)
       \/ \E e \in Event : SaveEvent(e) \/ SmuggleData(e)
       \/ NextRange
       \/ CatchUpNaive
       \/ GetTransactionData
       \/ BatchCall
       \/ RetryElement
       \/ NextRequest
       \/ Done

Next == Run \/ GetLogs \/ Die \/ Mine \/ Overload \/ Recover

Spec == Init /\ [][Next]_vars

(* A running get_logs goes on, and a node that is unavailable recovers.    *)
FairSpec == Spec /\ WF_vars(Run) /\ WF_vars(Recover)

-----------------------------------------------------------------------------

TypeOK == /\ stored \subseteq Event
          /\ filled \subseteq stored
          /\ fetched \in [Contract -> 0..MaxHeight]
          /\ height \in 1..MaxHeight
          /\ at \in {"down", "azimuth", "save-azimuth", "save-naive", "request",
                    "answers", "retry"}
          /\ {latest, from, to, batch_size} \subseteq Int
          /\ round \in 0..MaxRounds
          /\ got \cup parsed_logs \cup asked \subseteq Event
          /\ txs \subseteq asked
          /\ busy \in BOOLEAN
          /\ deaths \in 0..MaxDeaths
          /\ failed \in BOOLEAN

(* Nothing below the watermark is missing, wherever get_logs died: a       *)
(* resumed run starts at the watermark and would never fetch it.  A block  *)
(* of batches is complete only once the watermark is past it.              *)
NothingSkipped ==
    /\ \A e \in AzimuthLogs : BlockOf[e] <= fetched["azimuth"] => e \in stored
    /\ \A e \in Event \ AzimuthLogs : BlockOf[e] < fetched["naive"] => e \in filled

(* An event is fetched twice, and the second insert panics, only if it is  *)
(* in the block of the watermark, which is fetched again, or above it.     *)
RefetchedAtTheMark ==
    \A e \in got \cap stored :
       BlockOf[e] >= fetched[IF at = "save-azimuth" THEN "azimuth" ELSE "naive"]

(* However the node answers, get_logs ends, but for the loop of the        *)
(* retries: see RetryEnds.                                                 *)
GetLogsEnds == at # "down" ~> at \in {"down", "retry"}

(* naive.go:20, "Fetch all the Naive logs, and then fetch the transaction  *)
(* data for each log": a get_logs that came to its end leaves no batch     *)
(* without its data.  That is where each batch has a transaction of its    *)
(* own: of two in one transaction, LogOf finds only the last.              *)
EachLogHasData ==
    [][at = "request" /\ at' = "down" /\ deaths' = deaths
          => stored \subseteq filled]_vars

(* README.md:61, "If a panic happens, the db file is invalid; just delete  *)
(* it": what a get_logs that died leaves without its data gets it from no  *)
(* later one.  Such a batch is at the watermark or above it and is fetched *)
(* again, but the insert fails before any data is asked for, so that with  *)
(* EachLogHasData no get_logs on that file comes to its end.               *)
InvalidForGood ==
    [](at = "down" /\ stored # filled => [](stored # filled))

-----------------------------------------------------------------------------
(* What comments in the code say of it, and the code does not do.          *)

(* naive.go:86, "Try again on temporarily-unavailable errors".             *)
RetryEnds == <>[]~busy => (at = "retry" ~> at # "retry")
=============================================================================
