------------------------------ MODULE Providers ------------------------------
(***************************************************************************)
(* The platform clients (src/providers), as tables: which tokens each      *)
(* hands out, the requests its publish_post and publish_comment make, in   *)
(* their order, and which messages its get_messages returns.  Dispatch     *)
(* runs the programs, Connections and Inbox use the other tables.  What a  *)
(* request carries besides media is left out.                              *)
(***************************************************************************)
EXTENDS Integers, Sequences

Site == {"facebook", "instagram", "instagram_login", "threads", "linkedin", "tiktok",
         "youtube", "mastodon", "bluesky", "pinterest", "google_business"}
-----------------------------------------------------------------------------
(* Tokens.  gives: whether exchange_code or create_session may return a    *)
(* refresh token, and whether it may return none; new: the same of a new   *)
(* one in the answer of refresh_token.                                     *)
Maybe == {TRUE, FALSE}
Yes   == {TRUE}
No    == {FALSE}

FacebookTokens       == [auth |-> "oauth2", gives |-> No, new |-> No]
InstagramTokens      == [auth |-> "oauth2", gives |-> No, new |-> No]
InstagramLoginTokens == [auth |-> "oauth2", gives |-> Yes, new |-> Yes]
ThreadsTokens        == [auth |-> "oauth2", gives |-> No, new |-> No]
LinkedInTokens       == [auth |-> "oauth2", gives |-> Maybe, new |-> Maybe]
TikTokTokens         == [auth |-> "oauth2", gives |-> Maybe, new |-> Maybe]
YouTubeTokens        == [auth |-> "oauth2", gives |-> Maybe, new |-> Maybe]
MastodonTokens       == [auth |-> "instance_oauth", gives |-> No, new |-> No]
BlueskyTokens        == [auth |-> "session", gives |-> Yes, new |-> Yes]
PinterestTokens      == [auth |-> "oauth2", gives |-> Maybe, new |-> Maybe]
GoogleTokens         == [auth |-> "oauth2", gives |-> Maybe, new |-> No]

Tokens ==
  [facebook |-> FacebookTokens, instagram |-> InstagramTokens,
   instagram_login |-> InstagramLoginTokens, threads |-> ThreadsTokens,
   linkedin |-> LinkedInTokens, tiktok |-> TikTokTokens, youtube |-> YouTubeTokens,
   mastodon |-> MastodonTokens, bluesky |-> BlueskyTokens, pinterest |-> PinterestTokens,
   google_business |-> GoogleTokens]
-----------------------------------------------------------------------------
(* Publishing.  A program is a sequence of steps.  A request to "ask"      *)
(* leaves nothing behind; one to "make" has the platform process a         *)
(* container, which "wait" polls for; one to "load" uploads; one to "post" *)
(* is the one that publishes.  A failed "try" is caught, "raise" fails.    *)
(* load and post name the media by their positions.                        *)
Step(do, media) == [do |-> do, media |-> media]
Ask   == << Step("ask", << >>) >>
Wait  == << Step("wait", << >>) >>
Try   == << Step("try", << >>) >>
Raise == << Step("raise", << >>) >>
Make(media) == << Step("make", media) >>
Load(media) == << Step("load", media) >>
Send(media) == << Step("post", media) >>

First(c) == IF c.media = << >> THEN << >> ELSE << 1 >>
All(c)   == [i \in DOMAIN c.media |-> i]
(* The parts of a program, one after the other.                            *)
Joined(parts) ==
  LET upTo[i \in 0 .. Len(parts)] == IF i = 0 THEN << >> ELSE upTo[i - 1] \o parts[i]
  IN  upTo[Len(parts)]
(* A content c has media, a type, and in extra the settings it comes with: *)
(* ids that save a lookup, and "invalid" for one the provider rejects.     *)
Unless(c, s, steps) == IF s \in c.extra THEN << >> ELSE steps

Facebook(c) ==
  IF "page_id" \notin c.extra THEN Raise
  ELSE Send(IF c.type \in {"image", "video"} THEN First(c) ELSE << >>)

(* _create_container and _wait_for_container, for one item or for the      *)
(* children and then for the carousel; both Instagram clients do the same. *)
Single(c) == IF c.media = << >> THEN Raise ELSE Make(<< 1 >>) \o Wait \o Send(<< 1 >>)
Carousel(c) ==
  Joined([i \in DOMAIN c.media |-> Make(<< i >>) \o Wait]) \o Make(All(c)) \o Wait \o Send(All(c))

Instagram(c) ==
  Unless(c, "ig_user_id", Ask) \o (IF c.type = "carousel" THEN Carousel(c) ELSE Single(c))

InstagramLogin(c) ==
  IF c.type = "carousel" /\ Len(c.media) > 1 THEN Carousel(c) ELSE Single(c)

(* Threads publishes its containers without waiting for them.              *)
ThreadsSingle(c) ==
  LET media == IF c.type \in {"image", "video"} THEN First(c) ELSE << >>
  IN  Make(media) \o Send(media)
ThreadsCarousel(c) ==
  Joined([i \in DOMAIN c.media |-> Make(<< i >>)]) \o Make(All(c)) \o Send(All(c))
Threads(c) ==
  Unless(c, "user_id", Ask)
    \o (IF c.type = "carousel" THEN ThreadsCarousel(c) ELSE ThreadsSingle(c))

LinkedInText == Send(<< >>)
LinkedInImage == Ask \o Load(<< 1 >>) \o Send(<< 1 >>)
LinkedInVideo == Ask \o Load(<< 1 >>) \o Send(<< 1 >>)
LinkedInPoll(c) == IF "poll_options" \in c.extra THEN Send(<< >>) ELSE Raise
LinkedIn(c) ==
  Unless(c, "author", Ask)
    \o (CASE c.type = "image" /\ c.media # << >> -> LinkedInImage
          [] c.type = "video" /\ c.media # << >> -> LinkedInVideo
          [] c.type = "poll" -> LinkedInPoll(c)
          [] OTHER -> LinkedInText)

(* PULL_FROM_URL: the engine hands over urls whenever it hands over files. *)
TikTok(c) ==
  IF c.type # "video" \/ "invalid" \in c.extra \/ c.media = << >> THEN Raise ELSE Send(<< 1 >>)

(* The upload publishes the video; the thumbnail comes after it.           *)
YouTube(c) ==
  IF c.type \notin {"video", "short"} THEN Raise
  ELSE Ask \o (IF c.media = << >> THEN Raise
               ELSE Send(<< 1 >>) \o (IF "thumbnail_file" \in c.extra THEN Try ELSE << >>))

Mastodon(c) == Joined([i \in DOMAIN c.media |-> Load(<< i >>)]) \o Send(All(c))

(* _build_embed: the video, or up to four images.                          *)
Embed(c) ==
  CASE c.type = "video" -> First(c)
    [] c.type = "image" -> SubSeq(All(c), 1, IF Len(c.media) < 4 THEN Len(c.media) ELSE 4)
    [] OTHER -> << >>
(* A mention that cannot be resolved is left as text.                      *)
Bluesky(c) ==
  IF "invalid" \in c.extra THEN Raise
  ELSE Ask \o (IF "mention" \in c.extra THEN Try ELSE << >>)
           \o Joined([i \in DOMAIN Embed(c) |-> Load(<< i >>)]) \o Send(Embed(c))

PinterestVideo(c) == Ask \o (IF c.media = << >> THEN << >> ELSE Load(<< 1 >>)) \o Send(First(c))
Pinterest(c) ==
  IF "board_id" \notin c.extra THEN Raise
  ELSE IF "is_video" \in c.extra THEN PinterestVideo(c)
  ELSE IF c.media = << >> THEN Raise ELSE Send(<< 1 >>)

(* The account and the location, unless the credentials name them.         *)
GoogleIds(c) == Unless(c, "account_id", Ask) \o Unless(c, "location_id", Ask)
Google(c) == IF "invalid" \in c.extra THEN Raise ELSE GoogleIds(c) \o Send(All(c))

Program(site, c) ==
  CASE site = "facebook" -> Facebook(c)
    [] site = "instagram" -> Instagram(c)
    [] site = "instagram_login" -> InstagramLogin(c)
    [] site = "threads" -> Threads(c)
    [] site = "linkedin" -> LinkedIn(c)
    [] site = "tiktok" -> TikTok(c)
    [] site = "youtube" -> YouTube(c)
    [] site = "mastodon" -> Mastodon(c)
    [] site = "bluesky" -> Bluesky(c)
    [] site = "pinterest" -> Pinterest(c)
    [] site = "google_business" -> Google(c)

(* publish_comment.  The others do not have it.                            *)
FacebookReply       == Send(<< >>)
InstagramReply      == Send(<< >>)
InstagramLoginReply == Send(<< >>)
ThreadsReply        == Ask \o Make(<< >>) \o Send(<< >>)
LinkedInReply       == Ask \o Send(<< >>)
YouTubeReply        == Send(<< >>)
MastodonReply       == Send(<< >>)
NoReply             == Raise

Comment(site) ==
  CASE site = "facebook" -> FacebookReply
    [] site = "instagram" -> InstagramReply
    [] site = "instagram_login" -> InstagramLoginReply
    [] site = "threads" -> ThreadsReply
    [] site = "linkedin" -> LinkedInReply
    [] site = "youtube" -> YouTubeReply
    [] site = "mastodon" -> MastodonReply
    [] OTHER -> NoReply
-----------------------------------------------------------------------------
(* _resolve_post_type of the engine: a hint, "" when there is none; the    *)
(* platform's own type; a carousel; the first attachment.                  *)
PostType(site, hint, media) ==
  IF hint # "" THEN hint
  ELSE IF site = "pinterest" THEN "pin"
  ELSE IF Len(media) > 1 /\ site \in {"instagram", "instagram_login", "threads"} THEN "carousel"
  ELSE IF media = << >> THEN "text"
  ELSE media[1]

(* The attachments a platform for videos only is given.                    *)
Attached(site, media) ==
  IF site \in {"tiktok", "youtube"}
  THEN Joined([i \in DOMAIN media |-> IF media[i] = "video" THEN << media[i] >> ELSE << >>])
  ELSE media

(* PublishContent, and what _dispatch_to_provider sends to the provider.   *)
Content(site, d) ==
  LET media == Attached(site, d.media)
  IN  [media |-> media, type |-> PostType(site, d.hint, media),
       extra |-> IF site = "facebook" THEN d.extra \cup {"page_id"} ELSE d.extra]
-----------------------------------------------------------------------------
(* get_messages(since), of messages that were posted at time[m] and belong *)
(* to the conversation of top[m].  Facebook and Instagram return all of the*)
(* conversations that changed since then, Mastodon whatever there is, each *)
(* on its first page only; LinkedIn the comments from then on under the    *)
(* latest 20 posts; YouTube too, page by page, of the replies those that   *)
(* come with their comment, and none if the comment is older.  beyond are  *)
(* the messages that such a limit leaves out.                              *)
FacebookSince(m, time, top, since, beyond) ==
  m \notin beyond /\ \E n \in DOMAIN time : top[n] = top[m] /\ time[n] >= since
InstagramSince(m, time, top, since, beyond) ==
  m \notin beyond /\ \E n \in DOMAIN time : top[n] = top[m] /\ time[n] >= since
MastodonSince(m, beyond) == m \notin beyond
LinkedInSince(m, time, since, beyond) == m \notin beyond /\ time[m] >= since
YouTubeSince(m, time, top, since, beyond) ==
  /\ time[m] >= since /\ time[top[m]] >= since
  /\ top[m] = m \/ m \notin beyond

Since(site, m, time, top, since, beyond) ==
  CASE site = "facebook" -> FacebookSince(m, time, top, since, beyond)
    [] site \in {"instagram", "instagram_login"} -> InstagramSince(m, time, top, since, beyond)
    [] site = "mastodon" -> MastodonSince(m, beyond)
    [] site = "linkedin" -> LinkedInSince(m, time, since, beyond)
    [] site = "youtube"  -> YouTubeSince(m, time, top, since, beyond)
=============================================================================
