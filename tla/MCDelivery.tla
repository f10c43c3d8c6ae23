----------------------------- MODULE MCDelivery -----------------------------
(***************************************************************************)
(* Instance of Outgoing.                                                   *)
(***************************************************************************)
EXTENDS Outgoing

Clients == INSTANCE Providers

ShortBackoff == << 1, 2 >>

Draft(site, media, hint, extra) ==
  [site |-> site, media |-> media, hint |-> hint, extra |-> extra, comment |-> TRUE]

(* Every platform with nothing, an image, a video and both, and what only  *)
(* one of them looks at.                                                   *)
Posts ==
  {Draft(s, m, "", {}) : s \in Clients!Site, m \in {<< >>, << "image" >>, << "video" >>, << "image", "video" >>}}
    \cup {Draft("youtube", << "video" >>, h, {"thumbnail_file"}) : h \in {"", "short"}}
    \cup {Draft("instagram", << "image" >>, "", {"ig_user_id"}), Draft("threads", << >>, "", {"user_id"}),
          Draft("linkedin", << >>, "poll", {}), Draft("linkedin", << >>, "poll", {"poll_options", "author"}),
          Draft("tiktok", << "video" >>, "", {"invalid"}), Draft("bluesky", << "image" >>, "", {"mention"}),
          Draft("bluesky", << >>, "", {"invalid"}), Draft("google_business", << >>, "", {"invalid"}),
          Draft("google_business", << "image", "image" >>, "", {"account_id", "location_id"}),
          Draft("pinterest", << "image" >>, "", {"board_id"}), Draft("pinterest", << >>, "", {"board_id"}),
          Draft("pinterest", << "video" >>, "", {"board_id", "is_video", "cover_image_file"})}
=============================================================================
