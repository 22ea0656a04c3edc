-------------------------------- MODULE Places --------------------------------
(***************************************************************************)
(* The country and city of a form: hooks/useLocationData.js, as Register,  *)
(* GoogleAuthButton and Profile use it.  A city stands for the country it  *)
(* lies in; what the form sends is the pair that is chosen.                *)
(***************************************************************************)
EXTENDS Naturals

CONSTANTS
  Country,
  NoPlace,     \* the empty choice
  MaxChoices   \* bound: countries chosen

ASSUME PlaceBounds == MaxChoices \in Nat /\ NoPlace \notin Country

VARIABLES
  countries,    \* "loading", "loaded" or "failed"
  country,      \* the country chosen
  city,         \* the city chosen, as the country it lies in
  cities,       \* the list of cities, as the country they lie in
  loadingCities,
  fetches,      \* the requests for cities: their number and country
  choices,
  crossed       \* history: an answer for another country came after the choice

placeVars == <<countries, country, city, cities, loadingCities, fetches, choices, crossed>>

Choice == Country \cup {NoPlace}

PlaceTypeOK ==
  /\ countries \in {"loading", "loaded", "failed"}
  /\ country \in Choice /\ city \in Choice /\ cities \in Choice
  /\ loadingCities \in BOOLEAN /\ crossed \in BOOLEAN
  /\ fetches \subseteq [n : 1..MaxChoices, for : Country]
  /\ choices \in 0..MaxChoices

PlaceInit ==
  /\ countries = "loading"
  /\ country = NoPlace /\ city = NoPlace /\ cities = NoPlace
  /\ loadingCities = FALSE /\ fetches = {} /\ choices = 0 /\ crossed = FALSE

FetchCountries ==
  /\ countries = "loading"
  /\ countries' \in {"loaded", "failed"}
  /\ UNCHANGED <<country, city, cities, loadingCities, fetches, choices, crossed>>

\* The effect on the name of the country: no request without a country.
FetchCities(c) ==
  IF c = NoPlace
  THEN cities' = NoPlace /\ UNCHANGED <<loadingCities, fetches>>
  ELSE /\ loadingCities' = TRUE
       /\ fetches' = fetches \cup {[n |-> choices + 1, for |-> c]}
       /\ UNCHANGED cities

\* Variation: the city stays when the country changes.
ChooseCountryOnly(c) ==
  /\ countries = "loaded" /\ c # country /\ choices < MaxChoices
  /\ country' = c /\ choices' = choices + 1 /\ crossed' = FALSE
  /\ FetchCities(c)
  /\ UNCHANGED <<countries, city>>

\* Choosing a country empties the city.
ChooseCountry(c) ==
  /\ countries = "loaded" /\ c # country /\ choices < MaxChoices
  /\ country' = c /\ city' = NoPlace /\ choices' = choices + 1 /\ crossed' = FALSE
  /\ FetchCities(c)
  /\ UNCHANGED countries

ChooseCity(c) ==
  /\ country # NoPlace /\ ~loadingCities
  /\ cities # NoPlace /\ c \in {cities, NoPlace} /\ c # city
  /\ city' = c
  /\ UNCHANGED <<countries, country, cities, loadingCities, fetches, choices, crossed>>

\* Whatever was asked last, an answer fills the list and ends the loading; a
\* failed one empties it.
CitiesArrive(f, list) ==
  /\ f \in fetches /\ list \in {f.for, NoPlace}
  /\ cities' = list /\ loadingCities' = FALSE /\ fetches' = fetches \ {f}
  /\ crossed' = (crossed \/ f.for # country)
  /\ UNCHANGED <<countries, country, city, choices>>

PlaceNext ==
  \/ FetchCountries
  \/ \E c \in Choice : ChooseCountry(c) \/ ChooseCity(c)
  \/ \E f \in fetches, list \in Choice : CitiesArrive(f, list)

PlaceSpec == PlaceInit /\ [][PlaceNext]_placeVars

\* The place that the form sends exists: the city lies in the country, unless
\* the answer for another country arrived after the country was chosen.
PlaceIsReal == country # NoPlace /\ city # NoPlace => city = country \/ crossed
=============================================================================
