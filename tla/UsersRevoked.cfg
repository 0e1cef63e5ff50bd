SPECIFICATION Spec
CONSTANTS
  w1 = w1
  w2 = w2
  u1 = u1
  u2 = u2
  NewIds = {u1, u2}
  OldMember = old
  OldSocial = old_social
  google = google
  kakao = kakao
  Socials = {google, kakao}
  Review = review
  ReviewEnabled = TRUE
  Requests = {w1, w2}
  NoUser = NoUser
  NoSocial = NoSocial
  Nobody = Nobody
PROPERTY RevokedStaysRevoked
CHECK_DEADLOCK FALSE
