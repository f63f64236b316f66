------------------------------ MODULE Profiles ------------------------------
(***************************************************************************)
(* Public profiles (packages/app/src/profiles.rs): who owns the display    *)
(* name and the picture of a user, the user or Google.  The operations of  *)
(* the settings page are one update or one transaction each; those of a    *)
(* sign-in read the profile first and write later, and are two operators   *)
(* here.  SignIn puts them between its other steps.                        *)
(***************************************************************************)
CONSTANTS Users

VARIABLES
  profiles,  \* user_profiles, NoProfile where there is no row
  images     \* user_profile_images: whose picture is stored, or "None"

NoProfile == [name |-> "None"]

\* Names are told apart by who gave them, not by what they are.
Profile ==
  [name : {"Google", "Custom"}, name_source : {"GOOGLE", "CUSTOM"},
   avatar_source : {"GOOGLE", "CUSTOM", "CUSTOM_NONE"}]

NewProfile == [name |-> "Google", name_source |-> "GOOGLE", avatar_source |-> "GOOGLE"]

HasProfile(u) == profiles[u] # NoProfile

-----------------------------------------------------------------------------
(* The settings page *)

SetCustomName(u) ==
  /\ HasProfile(u)
  /\ profiles' = [profiles EXCEPT ![u].name = "Custom", ![u].name_source = "CUSTOM"]
  /\ UNCHANGED images

\* The name shown is kept until the next sign-in.
UseGoogleName(u) ==
  /\ HasProfile(u)
  /\ profiles' = [profiles EXCEPT ![u].name_source = "GOOGLE"]
  /\ UNCHANGED images

\* store_profile_image
StoreImage(u, source) ==
  /\ profiles' = [profiles EXCEPT ![u].avatar_source = source]
  /\ images' = [images EXCEPT ![u] = IF source = "GOOGLE" THEN "Google" ELSE "Custom"]

SetCustomAvatar(u) == HasProfile(u) /\ StoreImage(u, "CUSTOM")

\* The picture stored is kept until the next sign-in.
UseGoogleAvatar(u) ==
  /\ HasProfile(u)
  /\ profiles' = [profiles EXCEPT ![u].avatar_source = "GOOGLE"]
  /\ UNCHANGED images

WithoutImage(u) == [images EXCEPT ![u] = "None"]

RemoveCustomAvatar(u) ==
  /\ HasProfile(u)
  /\ profiles' = [profiles EXCEPT ![u].avatar_source = "CUSTOM_NONE"]
  /\ images' = WithoutImage(u)

Settings(u) ==
  \/ SetCustomName(u) \/ UseGoogleName(u)
  \/ SetCustomAvatar(u) \/ UseGoogleAvatar(u) \/ RemoveCustomAvatar(u)

-----------------------------------------------------------------------------
(* What a sign-in writes, `read` being the profile it has read *)

\* synchronize_google_profile
Synchronize(u, read) ==
  /\ profiles' = IF read.name_source = "GOOGLE"
                 THEN [profiles EXCEPT ![u].name = "Google"] ELSE profiles
  /\ UNCHANGED images

\* set_google_avatar, once it has found the picture to be Google's
SetGoogleAvatar(u) == StoreImage(u, "GOOGLE")

-----------------------------------------------------------------------------
(* Properties *)

ProfilesTyped ==
  /\ profiles \in [Users -> Profile \cup {NoProfile}]
  /\ images \in [Users -> {"None", "Google", "Custom"}]

\* set_google_avatar: "Stores a normalized provider avatar only while the avatar
\* remains Google-owned."  No step puts Google's picture where the user has put
\* one of their own, or has removed it "so provider login cannot restore it"
\* (remove_custom_avatar).
OwnPictureIsKept ==
  [][\A u \in Users :
       images[u] # "Google" /\ images'[u] = "Google" => profiles[u].avatar_source = "GOOGLE"
    ]_<<profiles, images>>

\* synchronize_google_profile: "Synchronizes provider-owned fields without
\* overwriting customization."  A name the user owns is the one the user gave.
CustomNameIsShown ==
  \A u \in Users :
    HasProfile(u) /\ profiles[u].name_source = "CUSTOM" => profiles[u].name = "Custom"
=============================================================================
