----------------------------- MODULE IceServers -----------------------------
(***************************************************************************)
(* The first half of rtc_peer_connection_create                            *)
(* (WebRtcInterop/src/PeerConnection.cc): the comma-separated URLs of each *)
(* rtc_ice_server are split, and then the connection is created, whose     *)
(* life is PeerConnection's.  One creation is followed at a time: its      *)
(* configuration is its own.                                               *)
(***************************************************************************)
EXTENDS PeerConnection, FiniteSets

CONSTANTS
    Characters,     \* what URLs are made of
    Comma,
    MaxUrls         \* bound: the length of the lists that are split

ASSUME CharactersAssumption == Comma \notin Characters /\ MaxUrls \in Nat

VARIABLES
    list,       \* the urls of the server that is being configured
    start,      \* where the loop is in it, counted from 1; 0 before a creation
    urls        \* server.urls

config == <<list, start, urls>>
iceVars == <<vars, config>>

Lists == UNION {[1..n -> Characters \cup {Comma}] : n \in 0..MaxUrls}
Blank == list' = <<>> /\ start' = 0 /\ urls' = <<>>
IceInit == Init /\ list = <<>> /\ start = 0 /\ urls = <<>>

(* The loop has found no further comma. *)
Finished == Len(list) + 2

(* The first server of a configuration, or the next one. *)
BeginServer ==
    /\ start \in {0, Finished} /\ \E c \in Connections : handle[c] = "none"
    /\ list' \in Lists /\ start' = 1 /\ urls' = <<>>
    /\ UNCHANGED vars

(* list.find(',', start), or std::string::npos *)
Npos == 0
Find ==
    LET commas == {i \in start..Len(list) : list[i] = Comma}
    IN IF commas = {} THEN Npos ELSE CHOOSE i \in commas : \A j \in commas : i <= j

(* Mutant: what follows the last comma is forgotten. *)
SplitForgetsLast ==
    /\ start \in 1..Len(list) + 1
    /\ LET url == SubSeq(list, start, Find - 1)
       IN urls' = IF url = <<>> THEN urls ELSE Append(urls, url)
    /\ start' = IF Find = Npos THEN Finished ELSE Find + 1
    /\ UNCHANGED <<list, vars>>

(* One round: up to the next comma or the end, then on behind it. *)
SplitOne ==
    /\ start \in 1..Len(list) + 1
    /\ LET end == IF Find = Npos THEN Len(list) ELSE Find - 1
           url == SubSeq(list, start, end)
       IN urls' = IF url = <<>> THEN urls ELSE Append(urls, url)
    /\ start' = IF Find = Npos THEN Finished ELSE Find + 1
    /\ UNCHANGED <<list, vars>>

(* Handle and observer come next; one of them, or the next server's urls, may
   be missing. *)
CreateConfigured(c) == start \in {0, Finished} /\ Create(c) /\ Blank
GiveUp == start = Finished /\ Blank /\ UNCHANGED vars

-----------------------------------------------------------------------------
Connected ==
    \/ \E c \in Connections :
          \/ CreateNative(c) \/ Close(c) \/ Release(c)
          \/ DestroyNative(c) \/ DestroyObserver(c) \/ Raise(c)
    \/ EndRaise
    \/ \E r \in Requests : Requesting(r)

IceNext ==
    \/ BeginServer \/ SplitOne \/ GiveUp
    \/ \E c \in Connections : CreateConfigured(c)
    \/ Connected /\ UNCHANGED config

IceSpec == IceInit /\ [][IceNext]_iceVars

FairIceSpec == IceSpec /\ Fairness

-----------------------------------------------------------------------------
(* The URLs by themselves: the places in the list that a run of characters
   without a comma starts at, and each run as far as it goes. *)
Begins(i) == list[i] # Comma /\ (i = 1 \/ list[i - 1] = Comma)
Run(i) ==
    CHOOSE u \in {SubSeq(list, i, j) : j \in i..Len(list)} :
        /\ \A k \in DOMAIN u : u[k] # Comma
        /\ i + Len(u) > Len(list) \/ list[i + Len(u)] = Comma

(* WebRTC is given every URL of the list and nothing else, in their order:
   empty fields, a leading or a trailing comma neither add one nor swallow a
   neighbour.  On the way it has those that start before the loop's place. *)
UrlsExact ==
    LET begun == {i \in DOMAIN list : i < start /\ Begins(i)}
    IN /\ Len(urls) = Cardinality(begun)
       /\ \A i \in begun : urls[Cardinality({j \in begun : j <= i})] = Run(i)
=============================================================================
