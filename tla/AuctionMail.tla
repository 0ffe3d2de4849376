----------------------------- MODULE AuctionMail -----------------------------
(***************************************************************************)
(* Money and items on their way between characters: the auction house and  *)
(* the mail.  AuctionHouseMgr holds the items of auctions and the bids; a  *)
(* letter is a row of the database and, while its receiver is online, an   *)
(* object in the MasterPlayer's m_mail.  A letter to a character that is   *)
(* not online is sent after an asynchronous count of the receiver's mails, *)
(* and a character that logs in reads its mails before it is online.       *)
(*                                                                         *)
(* Rows are written in the order of the handlers (Database).  Expiry and   *)
(* delivery times are left out: an auction may end, and a letter be        *)
(* opened, at any time.  There are no hardcore, deleted or GM characters.  *)
(***************************************************************************)
EXTENDS Integers, FiniteSets, FiniteSetsExt, Functions, TLC

CONSTANTS
    Chars, Items,
    Account,      \* the account of each character
    Holder,       \* who has each item at first
    Coins,        \* what each character has at first
    Prices,       \* bids
    Offers,       \* start bids and buyouts, 0 for none, as pairs
    Contents,     \* money and COD of letters, as pairs
    Deposit, CutPercent, Postage, MaxMoney,
    Ids,          \* bound: as many letters at a time
    MaxSales,     \* bound: auctions in one behaviour
    MaxSent,      \* bound: letters of characters in one behaviour
    None

ASSUME AuctionMailAssumption ==
    /\ Account \in [Chars -> Range(Account)] /\ Holder \in [Items -> Chars]
    /\ Prices \subseteq Nat \ {0} /\ Offers \subseteq (Nat \ {0}) \X Nat
    /\ Contents \subseteq Nat \X Nat
    /\ {Coins, Deposit, CutPercent, Postage, MaxMoney, MaxSales, MaxSent} \subseteq Nat
    /\ None \notin Chars \cup Items

VARIABLES
    session,   \* of each character: "off", "loading", "on"
    purse,     \* Player::GetMoney()
    inv,       \* the inventory
    auctions,  \* AuctionsMap: AuctionEntry
    mAitems,   \* AuctionHouseMgr::mAitems
    mails,     \* the table mail, by id
    m_mail,    \* MasterPlayer::m_mail, or what the login has read of the table
    deleted,   \* letters in m_mail whose state is MAIL_STATE_DELETED
    requests,  \* AsyncMailSendRequests whose query is not answered yet
    sunk,      \* money that has left the game
    lost,      \* items that have left the game
    sales, sent

goods == <<purse, inv, sunk, lost>>
house == <<auctions, mAitems>>
post  == <<mails, m_mail, deleted>>
count == <<sales, sent>>
vars  == <<session, goods, house, post, requests, count>>

Mail == [to : Chars, from : Chars \cup {None}, money : Nat, cod : Nat, item : Items \cup {None}]

\* MailDraft ... SendMailTo(.., auction, ..): from the auction house.
AuctionLetter(c, amount, i) == [to |-> c, from |-> None, money |-> amount, cod |-> 0, item |-> i]

Init ==
    /\ session = [c \in Chars |-> "off"]
    /\ purse = [c \in Chars |-> Coins]
    /\ inv = [c \in Chars |-> {i \in Items : Holder[i] = c}]
    /\ auctions = {} /\ mAitems = {}
    /\ mails = [k \in Ids |-> None] /\ m_mail = [c \in Chars |-> {}] /\ deleted = {}
    /\ requests = {} /\ sunk = 0 /\ lost = {} /\ sales = 0 /\ sent = 0

-----------------------------------------------------------------------------
(* Money and letters.                                                      *)

\* Player::ModifyMoney with a negative amount stops at 0, ...
Pays(c, amount) == purse' = [purse EXCEPT ![c] = IF @ > amount THEN @ - amount ELSE 0]

\* Mutant of Gains: no limit.
GainsUncapped(c, amount, thrown) ==
    /\ purse' = [purse EXCEPT ![c] = @ + amount]
    /\ sunk' = sunk + thrown

\* ... with a positive one at MAX_MONEY_AMOUNT; more is thrown away by then.
Gains(c, amount, thrown) ==
    LET p == IF purse[c] < MaxMoney - amount THEN purse[c] + amount ELSE MaxMoney
    IN  /\ purse' = [purse EXCEPT ![c] = p]
        /\ sunk' = sunk + thrown + amount - (p - purse[c])

Free(ms) == {k \in Ids : ms[k] = None}

\* SendMailTo for each draft, with the tables ms and the lists ml as they are
\* by then: a row for each, and an entry in m_mail if the receiver is online.
SendMails(drafts, ms, ml) ==
    /\ Cardinality(drafts) <= Cardinality(Free(ms))
    /\ LET id == CHOOSE f \in [drafts -> Free(ms)] : IsInjective(f)
       IN  /\ mails' = [k \in Ids |-> IF \E d \in drafts : id[d] = k
                                      THEN CHOOSE d \in drafts : id[d] = k ELSE ms[k]]
           /\ m_mail' = [c \in Chars |-> ml[c] \cup
                            {id[d] : d \in {e \in drafts : e.to = c /\ session[c] = "on"}}]

-----------------------------------------------------------------------------
(* Characters come and go, one of an account at a time.                    *)

\* The queries of the login, the mails among them, are executed.
LoadMails(c) ==
    /\ \A d \in Chars : Account[d] = Account[c] => session[d] = "off"
    /\ session' = [session EXCEPT ![c] = "loading"]
    /\ m_mail' = [m_mail EXCEPT ![c] = {k \in Ids : mails[k] # None /\ mails[k].to = c}]
    /\ UNCHANGED <<goods, house, mails, deleted, requests, count>>

\* HandlePlayerLogin: from now on the MasterPlayer is found ...
HandlePlayerLogin(c) ==
    /\ session[c] = "loading"
    /\ session' = [session EXCEPT ![c] = "on"]
    /\ UNCHANGED <<goods, house, post, requests, count>>

\* ... or the character cannot be loaded.
LoginFails(c) ==
    /\ session[c] = "loading"
    /\ session' = [session EXCEPT ![c] = "off"]
    /\ m_mail' = [m_mail EXCEPT ![c] = {}]
    /\ UNCHANGED <<goods, house, mails, deleted, requests, count>>

\* MasterPlayer::SaveMails: deleted letters go, with all they contain.
Removed(c) == deleted \cap m_mail[c]

SavedRows(c, ms) == [k \in Ids |-> IF k \in Removed(c) THEN None ELSE ms[k]]
SavedList(c) == [m_mail EXCEPT ![c] = @ \ Removed(c)]

Contained(ids) == MapThenSumSet(LAMBDA k : mails[k].money, ids)
SavesMails(c) ==
    /\ lost' = lost \cup ({mails[k].item : k \in Removed(c)} \ {None})
    /\ deleted' = deleted \ Removed(c)

\* LogoutPlayer, with MasterPlayer::SaveToDB.
LogoutPlayer(c) ==
    /\ session[c] = "on"
    /\ session' = [session EXCEPT ![c] = "off"]
    /\ SavesMails(c)
    /\ mails' = SavedRows(c, mails)
    /\ m_mail' = [m_mail EXCEPT ![c] = {}]
    /\ sunk' = sunk + Contained(Removed(c))
    /\ UNCHANGED <<purse, inv, house, requests, count>>

-----------------------------------------------------------------------------
(* The auction house.                                                      *)

GetAuctionCut(bid) == (CutPercent * bid) \div 100
GetAuctionOutBid(bid) == IF bid \div 100 = 0 THEN 1 ELSE (bid \div 100) * 5

HandleAuctionSellItem(c, i, bid, buyout) ==
    /\ session[c] = "on" /\ sales < MaxSales
    /\ i \in inv[c] /\ i \notin mAitems
    /\ buyout # 0 => bid <= buyout
    /\ purse[c] >= Deposit
    /\ Pays(c, Deposit)
    /\ auctions' = auctions \cup {[item |-> i, owner |-> c, startbid |-> bid, buyout |-> buyout,
                                   bid |-> 0, bidder |-> None]}
    /\ mAitems' = mAitems \cup {i}
    /\ inv' = [inv EXCEPT ![c] = @ \ {i}]
    /\ sales' = sales + 1
    /\ UNCHANGED <<session, sunk, lost, post, requests, sent>>

\* SendAuctionOutbiddedMail, SendAuctionCancelledToBidderMail
Refund(a) == {AuctionLetter(a.bidder, a.bid, None)}

\* SendAuctionSuccessfulMail
SuccessfulMail(a) == {AuctionLetter(a.owner, a.bid + Deposit - GetAuctionCut(a.bid), None)}

\* Mutant of ItemMail: nothing is sent to who is offline.
ItemMailOnline(c, a) ==
    IF a.item \in mAitems /\ session[c] = "on" THEN {AuctionLetter(c, 0, a.item)} ELSE {}

\* SendAuctionWonMail, SendAuctionExpiredMail: without the item in mAitems
\* nothing is sent.
ItemMail(c, a) == IF a.item \in mAitems THEN {AuctionLetter(c, 0, a.item)} ELSE {}

\* Mutant of AuctionEnds: without RemoveAItem.
AuctionEndsOnly(a) ==
    /\ auctions' = auctions \ {a}
    /\ mAitems' = mAitems
    /\ lost' = lost \cup ({a.item} \ mAitems)

\* DeleteFromDB, RemoveAItem, RemoveAuction
AuctionEnds(a) ==
    /\ auctions' = auctions \ {a}
    /\ mAitems' = mAitems \ {a.item}
    /\ lost' = lost \cup ({a.item} \ mAitems)

\* Mutant of MayBid: characters of the owner's account are not looked for.
MayBidOwn(c, a, price) ==
    /\ session[c] = "on" /\ a \in auctions /\ a.owner # c
    /\ price >= a.startbid /\ price > a.bid
    /\ price < a.buyout \/ a.buyout = 0 => price >= a.bid + GetAuctionOutBid(a.bid)
    /\ price <= purse[c]

\* The tests of HandleAuctionPlaceBid.  Only the account of an owner that is
\* not online is compared.
MayBid(c, a, price) ==
    /\ session[c] = "on" /\ a \in auctions /\ a.owner # c
    /\ session[a.owner] # "on" => Account[a.owner] # Account[c]
    /\ price >= a.startbid /\ price > a.bid
    /\ price < a.buyout \/ a.buyout = 0 => price >= a.bid + GetAuctionOutBid(a.bid)
    /\ price <= purse[c]

\* A bidder that raises its own bid pays the difference; another one gets its
\* money back.
Charge(c, a, price) == Pays(c, IF a.bidder = c THEN price - a.bid ELSE price)
Outbidden(c, a) == IF a.bidder \in {c, None} THEN {} ELSE Refund(a)

\* Mutant of PlaceBid: the money of the bidder before is forgotten.
PlaceBidNoRefund(c, a, price) ==
    /\ MayBid(c, a, price) /\ (price < a.buyout \/ a.buyout = 0)
    /\ Charge(c, a, price)
    /\ auctions' = (auctions \ {a}) \cup {[a EXCEPT !.bidder = c, !.bid = price]}
    /\ UNCHANGED <<session, inv, sunk, lost, mAitems, post, requests, count>>

PlaceBid(c, a, price) ==
    /\ MayBid(c, a, price) /\ (price < a.buyout \/ a.buyout = 0)
    /\ Charge(c, a, price)
    /\ SendMails(Outbidden(c, a), mails, m_mail)
    /\ auctions' = (auctions \ {a}) \cup {[a EXCEPT !.bidder = c, !.bid = price]}
    /\ UNCHANGED <<session, inv, sunk, lost, mAitems, deleted, requests, count>>

Buyout(c, a, price) ==
    LET b == [a EXCEPT !.bidder = c, !.bid = a.buyout]
    IN  /\ MayBid(c, a, price) /\ a.buyout # 0 /\ price >= a.buyout
        /\ Charge(c, a, a.buyout)
        /\ SendMails(Outbidden(c, a) \cup SuccessfulMail(b) \cup ItemMail(c, b), mails, m_mail)
        /\ AuctionEnds(a)
        /\ sunk' = sunk + GetAuctionCut(b.bid)
        /\ UNCHANGED <<session, inv, deleted, requests, count>>

\* The owner cancels: the bidder gets its money back and the owner pays the
\* cut; the deposit is kept.
HandleAuctionRemoveItem(c, a) ==
    LET cut == IF a.bidder = None THEN 0 ELSE GetAuctionCut(a.bid)
    IN  /\ session[c] = "on" /\ a \in auctions /\ a.owner = c /\ a.item \in mAitems
        /\ purse[c] >= cut
        /\ SendMails((IF a.bidder = None THEN {} ELSE Refund(a)) \cup ItemMail(c, a), mails, m_mail)
        /\ Pays(c, cut)
        /\ AuctionEnds(a)
        /\ sunk' = sunk + cut + Deposit
        /\ UNCHANGED <<session, inv, deleted, requests, count>>

\* AuctionHouseObject::Update, for an auction that has run out: without a
\* bidder the item goes back, else it is sold.
Update(a) ==
    /\ a \in auctions
    /\ IF a.bidder = None
       THEN SendMails(ItemMail(a.owner, a), mails, m_mail) /\ sunk' = sunk + Deposit
       ELSE /\ SendMails(SuccessfulMail(a) \cup ItemMail(a.bidder, a), mails, m_mail)
            /\ sunk' = sunk + GetAuctionCut(a.bid)
    /\ AuctionEnds(a)
    /\ UNCHANGED <<session, purse, inv, deleted, requests, count>>

-----------------------------------------------------------------------------
(* The mail.                                                               *)

Requests ==
    {[from |-> c, to |-> d, item |-> i, money |-> m[1], cod |-> m[2]] :
        c \in Chars, d \in Chars, i \in Items \cup {None}, m \in Contents}

\* Mutant of Sends: the item is not looked up again.
SendsBlindly(q) ==
    /\ purse[q.from] >= q.money + Postage
    /\ Pays(q.from, q.money + Postage)
    /\ sunk' = sunk + Postage
    /\ inv' = [inv EXCEPT ![q.from] = @ \ {q.item}]
    /\ SendMails({[q EXCEPT !.cod = IF q.item = None THEN 0 ELSE @]}, mails, m_mail)

\* HandleSendMailCallback, for a request that none of its tests refuses.
Sends(q) ==
    /\ purse[q.from] >= q.money + Postage
    /\ q.item # None => q.item \in inv[q.from]
    /\ Pays(q.from, q.money + Postage)
    /\ sunk' = sunk + Postage
    /\ inv' = [inv EXCEPT ![q.from] = @ \ {q.item}]
    /\ SendMails({[q EXCEPT !.cod = IF q.item = None THEN 0 ELSE @]}, mails, m_mail)

\* HandleSendMail: to a receiver that is online the letter is sent at once ...
HandleSendMail(q) ==
    /\ session[q.from] = "on" /\ q.to # q.from /\ sent < MaxSent
    /\ session[q.to] = "on"
    /\ Sends(q)
    /\ sent' = sent + 1
    /\ UNCHANGED <<session, lost, house, deleted, requests, sales>>

\* ... to another one when its mails have been counted.
HandleSendMailOffline(q) ==
    /\ session[q.from] = "on" /\ q.to # q.from /\ sent < MaxSent
    /\ session[q.to] # "on"
    /\ requests' = requests \cup {q}
    /\ sent' = sent + 1
    /\ UNCHANGED <<session, goods, house, post, sales>>

\* AsyncMailSendRequest::Callback: the sender is in the world, ...
Callback(q) ==
    /\ q \in requests /\ session[q.from] = "on"
    /\ Sends(q)
    /\ requests' = requests \ {q}
    /\ UNCHANGED <<session, lost, house, deleted, count>>

\* ... or it is not, or one of the tests of HandleSendMailCallback fails.
CallbackRefused(q) ==
    /\ q \in requests
    /\ requests' = requests \ {q}
    /\ UNCHANGED <<session, goods, house, post, count>>

\* A letter a character can act on.
Opens(c, k) == session[c] = "on" /\ k \in m_mail[c] /\ k \notin deleted

HandleMailDelete(c, k) ==
    /\ Opens(c, k) /\ mails[k].cod = 0
    /\ deleted' = deleted \cup {k}
    /\ UNCHANGED <<session, goods, house, mails, m_mail, requests, count>>

\* Mutant of HandleMailReturnToSender: without RemoveMail.
ReturnToSenderListed(c, k) ==
    LET m == mails[k]
        rows == [mails EXCEPT ![k] = None]
        list == m_mail
    IN  /\ Opens(c, k)
        /\ IF m.from # None
           THEN /\ SendMails({[m EXCEPT !.to = m.from, !.from = c, !.cod = 0]}, rows, list)
                /\ UNCHANGED <<sunk, lost>>
           ELSE /\ SendMails({}, rows, list)
                /\ sunk' = sunk + m.money /\ lost' = lost \cup ({m.item} \ {None})
        /\ UNCHANGED <<session, purse, inv, house, deleted, requests, count>>

\* The letter of a character goes back to it, one of the auction house goes.
HandleMailReturnToSender(c, k) ==
    LET m == mails[k]
        rows == [mails EXCEPT ![k] = None]
        list == [m_mail EXCEPT ![c] = @ \ {k}]
    IN  /\ Opens(c, k)
        /\ IF m.from # None
           THEN /\ SendMails({[m EXCEPT !.to = m.from, !.from = c, !.cod = 0]}, rows, list)
                /\ UNCHANGED <<sunk, lost>>
           ELSE /\ SendMails({}, rows, list)
                /\ sunk' = sunk + m.money /\ lost' = lost \cup ({m.item} \ {None})
        /\ UNCHANGED <<session, purse, inv, house, deleted, requests, count>>

\* The COD goes to the sender in a letter of its own.
HandleMailTakeItem(c, k) ==
    LET m == mails[k]
        rows == SavedRows(c, [mails EXCEPT ![k].item = None, ![k].cod = 0])
        payment == [to |-> m.from, from |-> c, money |-> m.cod, cod |-> 0, item |-> None]
    IN  /\ Opens(c, k) /\ m.item # None /\ purse[c] >= m.cod
        /\ SendMails(IF m.cod > 0 THEN {payment} ELSE {}, rows, SavedList(c))
        /\ Pays(c, m.cod)
        /\ inv' = [inv EXCEPT ![c] = @ \cup {m.item}]
        /\ SavesMails(c)
        /\ sunk' = sunk + Contained(Removed(c))
        /\ UNCHANGED <<session, house, requests, count>>

HandleMailTakeMoney(c, k) ==
    /\ Opens(c, k)
    /\ Gains(c, mails[k].money, Contained(Removed(c)))
    /\ SavesMails(c)
    /\ mails' = SavedRows(c, [mails EXCEPT ![k].money = 0])
    /\ m_mail' = SavedList(c)
    /\ UNCHANGED <<session, inv, house, requests, count>>

-----------------------------------------------------------------------------
Next ==
    \/ \E c \in Chars : LoadMails(c) \/ HandlePlayerLogin(c) \/ LoginFails(c) \/ LogoutPlayer(c)
    \/ \E c \in Chars, i \in Items, o \in Offers : HandleAuctionSellItem(c, i, o[1], o[2])
    \/ \E c \in Chars, a \in auctions, price \in Prices : PlaceBid(c, a, price) \/ Buyout(c, a, price)
    \/ \E c \in Chars, a \in auctions : HandleAuctionRemoveItem(c, a)
    \/ \E a \in auctions : Update(a)
    \/ \E q \in Requests : HandleSendMail(q) \/ HandleSendMailOffline(q)
    \/ \E q \in requests : Callback(q) \/ CallbackRefused(q)
    \/ \E c \in Chars, k \in Ids :
          \/ HandleMailDelete(c, k) \/ HandleMailReturnToSender(c, k)
          \/ HandleMailTakeItem(c, k) \/ HandleMailTakeMoney(c, k)

Spec == Init /\ [][Next]_vars

-----------------------------------------------------------------------------
TypeOK ==
    /\ session \in [Chars -> {"off", "loading", "on"}]
    /\ purse \in [Chars -> 0 .. MaxMoney] /\ inv \in [Chars -> SUBSET Items]
    /\ auctions \subseteq [item : Items, owner : Chars, startbid : Nat, buyout : Nat,
                           bid : Nat, bidder : Chars \cup {None}]
    /\ mAitems \subseteq Items /\ mails \in [Ids -> Mail \cup {None}]
    /\ m_mail \in [Chars -> SUBSET Ids] /\ deleted \subseteq Ids
    /\ requests \subseteq Requests /\ sunk \in Nat /\ lost \subseteq Items /\ sales \in 0 .. MaxSales /\ sent \in 0 .. MaxSent

Letters == {k \in Ids : mails[k] # None}

\* No handler makes or swallows money: what characters have, what auctions
\* hold and what is in letters only goes down by deposits, cuts, postage, the
\* limit of a purse and letters that are thrown away.
MoneyConserved ==
    SumFunction(purse) + MapThenSumSet(LAMBDA a : a.bid + Deposit, auctions)
        + Contained(Letters) + sunk = Cardinality(Chars) * Coins

\* An item is in one inventory, auction or letter, or was thrown away, and
\* never in two of them, whatever is sold, sent, returned and taken.
Places(i) ==
    {<<"inventory", c>> : c \in {d \in Chars : i \in inv[d]}}
    \cup {<<"auction", a>> : a \in {b \in auctions : b.item = i}}
    \cup {<<"letter", k>> : k \in {l \in Letters : mails[l].item = i}}
    \cup {<<"lost", l>> : l \in lost \cap {i}}
OnePlace == \A i \in Items : Cardinality(Places(i)) = 1

\* mAitems is what SendAuctionWonMail and HandleAuctionSellItem take it for:
\* the items of the auctions.
AItemsMatch == mAitems = {a.item : a \in auctions}

\* "impossible have online own another character" (AuctionHouseHandler.cpp:505):
\* nobody bids on auctions of the own account, though only the account of an
\* owner that is offline is compared.
NoBidOnOwnAccount ==
    \A a \in auctions : a.bidder # None => Account[a.bidder] # Account[a.owner]

\* What a MasterPlayer has in m_mail are letters to it that are in the table.
ListedExist ==
    \A c \in Chars : \A k \in m_mail[c] : mails[k] # None /\ mails[k].to = c

\* What is a character's own without its doing anything.
Worth(c) ==
    purse[c] + Contained({k \in Letters : mails[k].to = c})
    + MapThenSumSet(LAMBDA a : a.bid, {a \in auctions : a.bidder = c})
Goods(c) == inv[c] \cup {mails[k].item : k \in {l \in Letters : mails[l].to = c}}

\* Of a character that is not online nobody takes anything: its money only
\* gets less by a bid that wins, its items stay, and an item it auctions goes
\* for no less than the start bid or comes back.
AbsentLoseNothing ==
    [][\A c \in {d \in Chars : session[d] # "on"} :
          /\ \/ Worth(c)' >= Worth(c)
             \/ \E a \in auctions : a.bidder = c /\ a.item \in Goods(c)' /\ Worth(c)' = Worth(c) - a.bid
          /\ Goods(c) \subseteq Goods(c)' \cup {None}
          /\ \A a \in auctions :
                a.owner = c =>
                  \/ a.item \in mAitems' \cup Goods(c)'
                  \/ Worth(c)' >= Worth(c) + a.startbid + Deposit - GetAuctionCut(a.startbid)]_vars
=============================================================================
