------------------------- MODULE CipherNegotiation -------------------------
(***************************************************************************)
(* The choice of a session's data-channel cipher (src/cipher.go, and its   *)
(* use in performKeyMethod2Exchange and buildPushReply).  Names are        *)
(* compared without regard to case: a name that an embedder or a client    *)
(* gives is the cipher it folds to, or "other".  What a client says of     *)
(* itself is its IV_CIPHERS list, Absent if it sends none, its IV_NCP      *)
(* version, and the cipher of its options string, "" if it names none.     *)
(***************************************************************************)
EXTENDS Integers, Sequences

supportedDataCiphers == <<"AES-256-GCM", "AES-128-GCM">>
Ciphers == {"AES-256-GCM", "AES-128-GCM"}
Names == Ciphers \union {"other"}
NoCipher == ""       \* Go's empty string
Absent == <<NoCipher>>

canonicalCipherName(name) == IF name \in Ciphers THEN name ELSE NoCipher

\* The embedder's list, or its deprecated single cipher, or the default; <<>> when
\* an entry is not supported or comes twice.
resolveDataCiphers(dataCiphers, cipher) ==
    LET canonical == [i \in DOMAIN dataCiphers |-> canonicalCipherName(dataCiphers[i])]
    IN  CASE dataCiphers = <<>> /\ cipher = NoCipher -> supportedDataCiphers
          [] dataCiphers = <<>> /\ cipher # NoCipher ->
                 IF cipher \in Ciphers THEN <<cipher>> ELSE <<>>
          [] OTHER ->
                 IF \A i \in DOMAIN canonical :
                       /\ canonical[i] # NoCipher
                       /\ \A j \in 1 .. i - 1 : canonical[j] # canonical[i]
                 THEN canonical ELSE <<>>

sentIVCiphers(offer) == offer.ciphers # Absent

\* Mutant: only the version counts.
peerSupportsNCPVersion(offer) == offer.ncp >= 2

peerSupportsNCP(offer) == offer.ncp >= 2 \/ sentIVCiphers(offer)

peerCipherList(offer) ==
    IF sentIVCiphers(offer) THEN offer.ciphers
    ELSE IF offer.ncp >= 2 THEN supportedDataCiphers
    ELSE <<>>

\* The cipher of the options string, for a client that sends no IV_CIPHERS.
parseOCCCipher(offer) == IF sentIVCiphers(offer) THEN NoCipher ELSE offer.occ

contains(list, name) == \E i \in DOMAIN list : list[i] = name

\* The first entry of the server's list that the client can use, or NoCipher.
selectCipher(allowList, peerCiphers, occCipher) ==
    LET from[i \in 1 .. Len(allowList) + 1] ==
            IF i > Len(allowList) THEN NoCipher
            ELSE IF contains(peerCiphers, allowList[i]) \/ allowList[i] = occCipher
                 THEN allowList[i]
            ELSE from[i + 1]
    IN  from[1]

\* performKeyMethod2Exchange's choice; NoCipher refuses the client.
negotiated(allowList, offer) ==
    selectCipher(allowList, peerCipherList(offer), parseOCCCipher(offer))

\* The cipher of the PUSH_REPLY, NoCipher when it has none.
pushedCipher(allowList, offer) ==
    IF peerSupportsNCP(offer) THEN negotiated(allowList, offer) ELSE NoCipher

\* The client: a pushed cipher must be one it announced; without one it uses the
\* cipher of its options.
clientCipher(allowList, offer) ==
    LET pushed == pushedCipher(allowList, offer)
    IN  CASE pushed = NoCipher -> offer.occ
          [] pushed # NoCipher /\ contains(peerCipherList(offer), pushed) -> pushed
          [] OTHER -> NoCipher

(***************************************************************************)
(* Every configuration and every client with lists of at most three names  *)
(***************************************************************************)

Lists == UNION {[1 .. n -> Names] : n \in 0 .. 3}
Clients == [ciphers : Lists \union {Absent}, ncp : {0, 2}, occ : Names \union {NoCipher}]

\* What the client ends up with is what the server keys its data channel with.
allAgree ==
    \A list \in Lists, cipher \in Names \union {NoCipher}, offer \in Clients :
        LET allowList == resolveDataCiphers(list, cipher)
            selected == negotiated(allowList, offer)
        IN  selected # NoCipher => clientCipher(allowList, offer) = selected

\* The cipher is the first configured one that the client can use.
firstUsable ==
    \A list \in Lists, offer \in Clients :
        LET allowList == resolveDataCiphers(list, NoCipher)
            usable == {i \in DOMAIN list :
                         IF sentIVCiphers(offer) THEN contains(offer.ciphers, list[i])
                         ELSE offer.ncp >= 2 \/ offer.occ = list[i]}
        IN  list # <<>> /\ allowList # <<>> =>
                negotiated(allowList, offer) =
                    IF usable = {} THEN NoCipher
                    ELSE list[CHOOSE i \in usable : \A j \in usable : i <= j]
=============================================================================
