--------------------------- MODULE Recommendations ---------------------------
(***************************************************************************)
(* The recommendations of one user.  RecommendationsManager keeps a        *)
(* sampler per user, which hands out every beatmap of its population once. *)
(* It is replaced when a request comes with other settings, and dropped    *)
(* when it is empty, an hour old, or one too many.  Requests come from the *)
(* chat and from the web site, where nothing keeps them apart.             *)
(*                                                                         *)
(* A sampler here is the set of what it may still give; the distribution   *)
(* it draws from is in module Sampler.  An item is a beatmap with mods.    *)
(* Users share nothing but the size of the cache.  Left out: the           *)
(* recommendation kept for complaints, the column "hidden", which only     *)
(* tells how many recommendations the page already shows, and the user's   *)
(* top plays, which are what Pool leaves out.                              *)
(***************************************************************************)
EXTENDS Integers, FiniteSets, Sampler

CONSTANTS
    Threads,     \* threads that serve requests of the user
    BeatmapOf,   \* the beatmap of an item
    Settings,    \* parsed arguments of a request
    Default,     \* the settings without arguments
    NoMessage,   \* a request that takes any sampler
    NoItem,      \* what a thread has drawn that has drawn nothing
    Pool,        \* what the recommender has for given settings
    PageSize,    \* recommendations on the page, 10 in the code
    PageTries,   \* attempts to fill the page, 100 in the code
    HideTries,   \* attempts to replace a hidden one, 10 in the code
    MaxSamplers  \* bound on the samplers that are made

\* What may be recommended, with the probabilities of the module Sampler.
Items == Elements

ASSUME RecommendationsAssumption ==
    /\ Default \in Settings /\ NoMessage \notin Settings /\ NoItem \notin Items
    /\ Pool \in [Settings -> SUBSET Items]
    /\ DOMAIN BeatmapOf = Items
    /\ PageSize \in Nat \ {0} /\ PageTries \in Nat \ {0} /\ HideTries \in Nat \ {0}
    /\ MaxSamplers \in Nat

VARIABLES
    thread,     \* what each thread is doing
    samplers,   \* every sampler that was made, by number
    cache,      \* the number of the user's sampler in the cache
    recent,     \* recommended within four weeks and not forgotten
    overlapped  \* history: requests of the user were served at the same time

vars == <<thread, samplers, cache, recent, overlapped>>

None == 0
Made == DOMAIN samplers
Messages == Settings \cup {NoMessage}
Places == {"idle", "lookup", "load", "put", "check", "draw", "refill", "found", "save"}
\* Its sampler, what it has drawn, the attempts it has left, and the
\* recommendations it has yet to make.
Thread == [pc : Places, message : Messages, ref : Nat, item : Items \cup {NoItem},
           tries : Nat, wants : Nat]
SamplerType == [settings : Settings, left : SUBSET Items, seemsEmpty : BOOLEAN]

Idle == [pc |-> "idle", message |-> NoMessage, ref |-> None, item |-> NoItem,
         tries |-> 0, wants |-> 0]

\* A request that wants w recommendations and has n attempts left.
Request(message, n, w) ==
    [pc |-> "lookup", message |-> message, ref |-> None, item |-> NoItem,
     tries |-> n, wants |-> w]

Init ==
    /\ thread = [t \in Threads |-> Idle]
    /\ samplers = [s \in {} |-> {}]
    /\ cache = None
    /\ recent = {}
    /\ overlapped = FALSE

Become(t, r) == thread' = [thread EXCEPT ![t] = r]
Goto(t, place) == Become(t, [thread[t] EXCEPT !.pc = place])
Ref(t) == thread[t].ref

-----------------------------------------------------------------------------
(* The callers.  RecommendHandler asks once; RecommendationsServiceImpl    *)
(* fills the page, or replaces a recommendation that is hidden.            *)

Begin(t, message, n, w) ==
    /\ thread[t].pc = "idle"
    /\ Become(t, Request(message, n, w))
    /\ overlapped' = (overlapped \/ \E u \in Threads : thread[u].pc # "idle")
    /\ UNCHANGED <<samplers, cache, recent>>

\* The chat always has arguments, if only empty ones.
Recommend(t) == \E message \in Settings : Begin(t, message, 1, 1)
GetRecommendations(t) ==
    \E message \in Messages, w \in 1..PageSize : Begin(t, message, PageTries, w)
HideRecommendation(t) == \E message \in Messages : Begin(t, message, HideTries, 1)

More(w, n) == w > 0 /\ n > 0

\* The next attempt of a request that still wants w recommendations.
Continue(t, w) ==
    IF More(w, thread[t].tries) THEN Request(thread[t].message, thread[t].tries, w) ELSE Idle

-----------------------------------------------------------------------------
(* getRecommendation.                                                      *)

Asked(t) == IF thread[t].message = NoMessage THEN Default ELSE thread[t].message

\* Mutant: a cached sampler is used whatever the arguments are.
MutReusable(t) == cache # None
Reusable(t) ==
    /\ cache # None
    /\ thread[t].message = NoMessage \/ samplers[cache].settings = Asked(t)

Lookup(t) ==
    /\ thread[t].pc = "lookup"
    /\ Become(t, [thread[t] EXCEPT
                     !.pc = IF Reusable(t) THEN "check" ELSE "load",
                     !.ref = IF Reusable(t) THEN cache ELSE None,
                     !.tries = thread[t].tries - 1])
    /\ UNCHANGED <<samplers, cache, recent, overlapped>>

\* Beatmaps are not recommended again with other mods either.
\* Mutant: what was recommended before is not excluded.
MutExcluded == {}
Excluded == {BeatmapOf[e] : e \in recent}

\* loadSampler: from here on the sampler is fixed, and known to this thread only.
Load(t) ==
    /\ thread[t].pc = "load"
    /\ Cardinality(Made) < MaxSamplers
    /\ LET s == Cardinality(Made) + 1
           left == {e \in Pool[Asked(t)] : BeatmapOf[e] \notin Excluded}
           new == [settings |-> Asked(t), left |-> left, seemsEmpty |-> left = {}]
       IN  /\ samplers' = [k \in Made \cup {s} |-> IF k = s THEN new ELSE samplers[k]]
           /\ Become(t, [thread[t] EXCEPT !.pc = "put", !.ref = s])
    /\ UNCHANGED <<cache, recent, overlapped>>

\* The arguments are refused, or the recommender or the database fails.
Fail(t) ==
    /\ thread[t].pc \in {"lookup", "load", "found", "save"}
    /\ Become(t, Idle)
    /\ UNCHANGED <<samplers, cache, recent, overlapped>>

Put(t) ==
    /\ thread[t].pc = "put"
    /\ cache' = Ref(t)
    /\ Goto(t, "check")
    /\ UNCHANGED <<samplers, recent, overlapped>>

\* Sampler.isEmpty, which does not wait for a sample() under way.
Check(t) ==
    /\ thread[t].pc = "check"
    /\ ~samplers[Ref(t)].seemsEmpty
    /\ Goto(t, "draw")
    /\ UNCHANGED <<samplers, cache, recent, overlapped>>

\* An empty sampler ends the request, and whatever is in the cache is dropped.
OutOfRecommendations(t) ==
    /\ thread[t].pc = "check"
    /\ samplers[Ref(t)].seemsEmpty
    /\ cache' = None
    /\ Become(t, Idle)
    /\ UNCHANGED <<samplers, recent, overlapped>>

-----------------------------------------------------------------------------
(* Sampler.sample, which is synchronized.                                  *)

\* Mutant: it is not.
MutUnlocked(s) == TRUE
Unlocked(s) == \A u \in Threads : ~(thread[u].pc = "refill" /\ Ref(u) = s)

\* An item is removed, and the tail of the distribution to be put back: when the
\* item was the first, nothing is left in between.
Draw(t) ==
    LET s == Ref(t) IN
    /\ thread[t].pc = "draw"
    /\ Unlocked(s)
    /\ \E e \in samplers[s].left, hollow \in BOOLEAN :
        /\ samplers[s].left = {e} => hollow
        /\ Become(t, [thread[t] EXCEPT !.pc = "refill", !.item = e])
        /\ samplers' = [samplers EXCEPT ![s].seemsEmpty = hollow]
    /\ UNCHANGED <<cache, recent, overlapped>>

\* sample() calls itself until the stack overflows.
Overflow(t) ==
    /\ thread[t].pc = "draw"
    /\ Unlocked(Ref(t))
    /\ samplers[Ref(t)].left = {}
    /\ Become(t, Idle)
    /\ UNCHANGED <<samplers, cache, recent, overlapped>>

Without(sampler, e) ==
    [settings |-> sampler.settings, left |-> sampler.left \ {e},
     seemsEmpty |-> sampler.left \ {e} = {}]

Refill(t) ==
    /\ thread[t].pc = "refill"
    /\ samplers' = [samplers EXCEPT ![Ref(t)] = Without(samplers[Ref(t)], thread[t].item)]
    /\ Goto(t, "found")
    /\ UNCHANGED <<cache, recent, overlapped>>

-----------------------------------------------------------------------------
(* The rest of getRecommendation, and what the callers make of it.         *)

\* The beatmap can be loaded.
Found(t) ==
    /\ thread[t].pc = "found"
    /\ Goto(t, "save")
    /\ UNCHANGED <<samplers, cache, recent, overlapped>>

\* It cannot, or it does not suit the page.
NotFound(t) ==
    /\ thread[t].pc = "found"
    /\ Become(t, Continue(t, thread[t].wants))
    /\ UNCHANGED <<samplers, cache, recent, overlapped>>

\* saveGivenRecommendation.
Save(t) ==
    /\ thread[t].pc = "save"
    /\ recent' = recent \cup {thread[t].item}
    /\ Become(t, Continue(t, thread[t].wants - 1))
    /\ UNCHANGED <<samplers, cache, overlapped>>

-----------------------------------------------------------------------------
(* The cache drops a sampler, recommendations get older than four weeks,   *)
(* and the user forgets them all with the command !reset.                  *)

Evict ==
    /\ cache # None
    /\ cache' = None
    /\ UNCHANGED <<thread, samplers, recent, overlapped>>

Age(e) ==
    /\ e \in recent
    /\ recent' = recent \ {e}
    /\ UNCHANGED <<thread, samplers, cache, overlapped>>

ForgetRecommendations ==
    /\ recent # {}
    /\ recent' = {}
    /\ UNCHANGED <<thread, samplers, cache, overlapped>>

GetRecommendation(t) ==
    \/ Lookup(t) \/ Load(t) \/ Fail(t) \/ Put(t) \/ Check(t)
    \/ OutOfRecommendations(t) \/ Draw(t) \/ Overflow(t) \/ Refill(t)
    \/ Found(t) \/ NotFound(t) \/ Save(t)

Next ==
    \/ \E t \in Threads :
        \/ Recommend(t) \/ GetRecommendations(t) \/ HideRecommendation(t)
        \/ GetRecommendation(t)
    \/ Evict \/ ForgetRecommendations
    \/ \E e \in Items : Age(e)

Spec == Init /\ [][Next]_vars

-----------------------------------------------------------------------------
TypeOK ==
    /\ thread \in [Threads -> Thread]
    /\ \E n \in 0..MaxSamplers : Made = 1..n
    /\ samplers \in [Made -> SamplerType]
    /\ cache \in Made \cup {None}
    /\ \A t \in Threads :
        /\ Ref(t) \in IF thread[t].pc \in {"idle", "lookup", "load"} THEN {None} ELSE Made
        /\ thread[t].item # NoItem <=> thread[t].pc \in {"refill", "found", "save"}
    /\ recent \subseteq Items
    /\ overlapped \in BOOLEAN

(* What a sampler has given to one request it gives to no other, although  *)
(* the chat and the web site draw from the same sampler at the same time.  *)
DrawnOnce ==
    \A t, u \in Threads :
        t # u /\ Ref(t) = Ref(u) /\ thread[t].item # NoItem => thread[t].item # thread[u].item

(* As long as the user's requests do not overlap, nothing is recommended   *)
(* again within four weeks, whatever settings are used in between, and     *)
(* whether or not samplers are replaced or dropped.                        *)
NoRepeat ==
    ~overlapped => \A t \in Threads : thread[t].pc = "save" => thread[t].item \notin recent

(* A request with arguments gets what the recommender has for them, even   *)
(* while other requests replace the cached sampler.                        *)
SettingsHonoured ==
    \A t \in Threads :
        thread[t].item # NoItem /\ thread[t].message # NoMessage
            => thread[t].item \in Pool[thread[t].message]

(* Whatever the sampler that is put into the cache had besides, and in any *)
(* order, each item is drawn with its probability relative to the others:  *)
(* taking an item out and putting the tail of the distribution back leaves *)
(* the sampler that would have been made without the item.                 *)
SamplesFairly ==
    \A t \in Threads : thread[t].pc = "put" =>
        \A population \in SetToAllKPermutations(Items) :
            samplers[Ref(t)].left \subseteq Range(population) => Fair(population)

(* sample() is only called on a sampler that has something left, so that   *)
(* the recursion in Sampler.java:52-58, "practically not possible",        *)
(* happens at most when floating-point numbers are unstable.               *)
NeverSampledEmpty ==
    \A t \in Threads :
        thread[t].pc = "draw" /\ Unlocked(Ref(t)) => samplers[Ref(t)].left # {}
=============================================================================
