-------------------------- MODULE ShortVideoDedup --------------------------
(***************************************************************************)
(* When two posts are the same short video: the fingerprints, the recall   *)
(* keys and the judgment of src/pipeline/short-video-dedup.ts, and the     *)
(* links that make a post a teaser, src/pipeline/pairing.ts.               *)
(*                                                                         *)
(* A post is a record: its platform, kind ("shorts" or "video"), user,     *)
(* compact text (a sequence of characters), tokens (a sequence of words    *)
(* [word, size], in the order of the text), links (the platforms it links  *)
(* to) and flags.                                                          *)
(***************************************************************************)
EXTENDS Integers, Sequences, FiniteSets

CONSTANTS SharedPhraseMin, TokenMin, MaxRecallTokens

ASSUME DedupAssumption == {SharedPhraseMin, TokenMin, MaxRecallTokens} \subseteq Nat \ {0}

Supported == {"tiktok", "instagram", "youtube"}

PairAllowed(p, q) == p = q \/ {p, q} = {"instagram", "tiktok"}

Namespaces(platform) == {platform} \cup (IF platform \in {"instagram", "tiktok"} THEN {"ig-tt"} ELSE {})

\* youtube takes part with its shorts only; a post without words cannot be compared.
Comparable(post) ==
  /\ post.platform \in Supported
  /\ post.platform = "youtube" => post.kind = "shorts"
  /\ post.compact # <<>> \/ post.tokens # <<>>

Words(post) == {post.tokens[n] : n \in DOMAIN post.tokens}

\* The first long tokens, and the whole text when it is long enough.
RecallKeys(post) ==
  LET Long(token) == token.size >= TokenMin
      long == SelectSeq(post.tokens, Long)
      first == {long[n] : n \in {k \in DOMAIN long : k <= MaxRecallTokens}}
  IN  {<<"tok", token.word>> : token \in first}
      \cup (IF Len(post.compact) >= SharedPhraseMin THEN {<<"exact", post.compact>>} ELSE {})

\* The two texts have a phrase of this length in common.
SharePhrase(left, right, length) ==
  \E i \in 0 .. (Len(left) - length), j \in 0 .. (Len(right) - length) :
    SubSeq(left, i + 1, i + length) = SubSeq(right, j + 1, j + length)

LikelySameText(left, right) ==
  LET shared == Words(left) \cap Words(right)
      union == Cardinality(Words(left) \cup Words(right))
      least == IF Cardinality(Words(left)) < Cardinality(Words(right))
               THEN Cardinality(Words(left)) ELSE Cardinality(Words(right))
      count == Cardinality(shared)
  IN  /\ left.compact # <<>> /\ right.compact # <<>>
      /\ \/ SharePhrase(left.compact, right.compact, SharedPhraseMin)
         \/ \E token \in shared : token.size >= SharedPhraseMin
         \/ count >= 2 /\ (100 * count >= 45 * union \/ 100 * count >= 67 * least)

SameVideo(left, right) ==
  \/ Len(left.compact) >= SharedPhraseMin /\ left.compact = right.compact
  \/ LikelySameText(left, right)

\* What a claim leaves behind, and whom a check finds through it.
KeysOf(name, post) == {<<ns, key, name>> : ns \in Namespaces(post.platform), key \in RecallKeys(post)}

\* (mutant of Recalled) the claims of the post itself are among them.
RecalledItself(post, name, keys) ==
  {row[3] : row \in {r \in keys : r[1] \in Namespaces(post.platform) /\ r[2] \in RecallKeys(post)}}

Recalled(post, name, keys) ==
  {row[3] : row \in {r \in keys : r[1] \in Namespaces(post.platform) /\ r[2] \in RecallKeys(post) /\ r[3] # name}}

\* teaserJoinPlatform: the first of the configured platforms the text links to.
JoinPlatform(post, platforms) ==
  LET linked == {n \in DOMAIN platforms : platforms[n] \in {"tiktok", "instagram"} \cap post.links}
  IN  IF linked = {} THEN "none" ELSE platforms[CHOOSE n \in linked : \A k \in linked : n <= k]
=============================================================================
