------------------------------ MODULE Algorithms ------------------------------
(* The parts that are computed rather than coordinated, each from its own         *)
(* beginning: the verdict of a job, the scores of a listing, the documents made   *)
(* of answers, the keywords of an order and the listings kept, the ledger of AI   *)
(* calls with its cleanup, the download of a picture, the crawl of a site, the fields  *)
(* of an order, and a case from its scores to the dashboard.                       *)
EXTENDS MatchingScore, Sequences

CONSTANTS Keywords, Percents,
          MaxKeywords, MaxAdvice, KeyOf(_), IsShort(_), Words,
          Hints, Aliases(_), IsLong(_), InName(_, _), MaxCount, Orders, FromModel, Keyword, Titles,
          Limits, MaxCollected,
          Models, Table, Includes(_, _), PriceOf(_), Fallback, MonthDays, AttemptDays, UsageDays,
          BatchSize, MaxDay, MaxRows, MaxAttempts,
          MaxRedirects, MaxBytes, Sizes, AllowHttp, Reached,
          Presets, Places(_), IsRural(_), Whole(_), Enough, MaxRural, MaxPlaces, BackOffAt, AbortAt,
          Regions, Listings, Usable(_), Tokens(_), Alike(_), Found, MaxResults,
          RawOrders, IsUrl(_),
          Scores, Measures, Opinions, Advices

VARIABLES part, st, percent, made, keywords, crawl, today, usage, attempts, cleaner, lastRun,
          pc, url, hops, asked, size,
          site, codes, targets, step, walk, askedAt, offered, result,
          raw, job, shown, compared,
          listing, answers, case, view

Verdict  == INSTANCE MCJobStatus
Document == INSTANCE AiAnswers WITH MaxItems <- MaxAdvice
Search   == INSTANCE SearchKeywords WITH MaxItems <- MaxCollected
Ledger   == INSTANCE UsageLedger WITH Contains <- Includes
Image    == INSTANCE ImageFetch
Adapter  == INSTANCE SiteAdapter WITH Answers <- Found
Shown    == INSTANCE CaseView
Order    == INSTANCE OrderFields

ASSUME AlgorithmsAssumption ==
    /\ Document!AnswerAssumption /\ Search!SearchAssumption /\ Ledger!LedgerAssumption
    /\ Image!ImageAssumption /\ Adapter!AdapterAssumption /\ Shown!ViewAssumption
    /\ Order!OrderAssumption

scoreVars   == <<stage, scores, seen>>
verdictVars == <<st, percent>>
searchVars  == <<keywords, crawl>>
ledgerVars  == <<today, usage, attempts, cleaner, lastRun>>
imageVars   == <<pc, url, hops, asked, size>>
adapterVars == <<site, codes, targets, step, walk, askedAt, offered, result>>
ordersVars  == <<raw, job, shown, compared>>
viewVars    == <<listing, answers, case, view>>
orderVars   == <<ordersVars, viewVars>>
algorithmVars == <<part, scoreVars, verdictVars, made, searchVars, ledgerVars, imageVars,
                   adapterVars, orderVars>>

AlgorithmsInit ==
    /\ part \in {"verdict", "scores", "documents", "search", "ledger", "image", "adapter", "order",
              "view"}
    /\ Init /\ Verdict!Init /\ Document!Init /\ Ledger!Init
    /\ IF part = "search" THEN Search!Init ELSE keywords = Search!Unknown /\ crawl = << >>
    /\ Image!Init /\ (part # "image" => url = CHOOSE u \in Reached : TRUE)
    /\ Adapter!Init
    /\ (part # "adapter" => site = "bungae" /\ codes = CHOOSE c \in Regions : TRUE)
    /\ Order!Init /\ (part # "order" => raw = Order!Gone)
    /\ IF part = "view" THEN Shown!Init
       ELSE listing = << >> /\ answers = << >> /\ case = << >> /\ view = << >>

AlgorithmsNext ==
    /\ UNCHANGED part
    /\ \/ part = "scores" /\ Next
          /\ UNCHANGED <<verdictVars, made, searchVars, ledgerVars, imageVars, adapterVars,
                         orderVars>>
       \/ part = "verdict" /\ Verdict!Next
          /\ UNCHANGED <<scoreVars, made, searchVars, ledgerVars, imageVars, adapterVars,
                         orderVars>>
       \/ part = "documents" /\ Document!Next
          /\ UNCHANGED <<scoreVars, verdictVars, searchVars, ledgerVars, imageVars, adapterVars,
                         orderVars>>
       \/ part = "search" /\ Search!Next
          /\ UNCHANGED <<scoreVars, verdictVars, made, ledgerVars, imageVars, adapterVars,
                         orderVars>>
       \/ part = "ledger" /\ Ledger!Next
          /\ UNCHANGED <<scoreVars, verdictVars, made, searchVars, imageVars, adapterVars,
                         orderVars>>
       \/ part = "image" /\ Image!Next
          /\ UNCHANGED <<scoreVars, verdictVars, made, searchVars, ledgerVars, adapterVars, orderVars>>
       \/ part = "adapter" /\ Adapter!Next
          /\ UNCHANGED <<scoreVars, verdictVars, made, searchVars, ledgerVars, imageVars, orderVars>>
       \/ part = "order" /\ Order!Next /\ UNCHANGED viewVars
          /\ UNCHANGED <<scoreVars, verdictVars, made, searchVars, ledgerVars, imageVars, adapterVars>>
       \/ part = "view" /\ Shown!Next /\ UNCHANGED ordersVars
          /\ UNCHANGED <<scoreVars, verdictVars, made, searchVars, ledgerVars, imageVars, adapterVars>>

AlgorithmsSpec ==
    /\ AlgorithmsInit
    /\ [][AlgorithmsNext]_algorithmVars
    /\ part = "ledger" => Ledger!Fairness
    /\ part = "image" => Image!Fairness
    /\ part = "adapter" => Adapter!Fairness

-----------------------------------------------------------------------------
(* MCJobStatus: the verdict of a job agrees with what its searches came to. *)
VerdictMeaning         == Verdict!VerdictMeaning

(* AiAnswers: whatever a model answers, the document made of it is complete. *)
Complete               == Document!Complete

(* SearchKeywords: no listing that is dropped is more alike than one kept. *)
BestKept           == part = "search" => Search!BestKept

(* UsageLedger: the cleanup deletes no row that this month's cost needs, and one that *)
(* ends has left nothing past its retention.                                         *)
Retained           == Ledger!MonthKept /\ Ledger!NothingOldLeft

(* ImageFetch: no download asks a private host, follows more redirects than it  *)
(* may or keeps more bytes than it may.                                         *)
Bounded == Image!Bounded

(* SiteAdapter: all the places of the regions asked for are asked, at most twice; and *)
(* a crawl keeps what was asked for, and says so when it was refused.               *)
AskedAndKept == part = "adapter" => Adapter!AllAsked /\ Adapter!RightlyKept

(* OrderFields: what listings are compared with is what was searched for. *)
ComparedAsSearched == part = "order" => Order!ComparedAsSearched

(* CaseView: what the dashboard shows of a case is what it was made of. *)
ShownAsMade == part = "view" => Shown!ShownAsMade

(* UsageLedger, ImageFetch, SiteAdapter: the loops over the batches of a cleanup,   *)
(* the redirects and chunks of a download, and the places of a crawl end.         *)
LoopsEnd == /\ Ledger!CleanupEnds
            /\ part = "image" => Image!DownloadEnds
            /\ part = "adapter" => Adapter!CrawlEnds

=============================================================================
